---------------------------- MODULE Spec2Model ----------------------------
(***************************************************************************)
(* Verification model of the security-finding remediation and JIT access   *)
(* subsystem of AWS-IAM-Solution.                                          *)
(*                                                                         *)
(* Part 1: the JIT access workflow (JitAccessStateMachine) with its two    *)
(*         Lambda handlers, monitoring_construct.py lines 204-253.         *)
(* Part 2: the S3 remediation actuator, the handler of                     *)
(*         cdk.out/asset.c79e.../index.py.                                 *)
(* Part 3: the finding handler with the classifier and the advisor,        *)
(*         lambda_remediation.py.                                          *)
(* Part 4: the AccessAnalyzerFindings rule and its target,                 *)
(*         monitoring_construct.py lines 123-154 and                       *)
(*         lambda/remediation/index.py.                                    *)
(* Part 5: the credential hygiene scanner (CredentialRotationFunction),    *)
(*         monitoring_construct.py lines 157-180.                          *)
(*                                                                         *)
(* Each part has its own specification over the one variable list; the     *)
(* variables of the other part stay at their initial values.               *)
(***************************************************************************)
EXTENDS Integers, Sequences, FiniteSets, TLC

VARIABLES
    \* ---- JIT access workflow ----
    execStatus,        \* status of the one execution of JitAccessStateMachine
    jitState,          \* the state of the definition the execution is in
    clock,             \* minutes since the model started
    startedAt,         \* clock at StartExecution, -1 before
    waitUntil,         \* clock at which WaitDuration ends, -1 outside the wait
    endedAt,           \* clock at which the execution ended, -1 while it has not
    lifecycle,         \* sequence of JitAccessRequest states reached so far
    approved,          \* an external approver has approved the request
    grantInvocations,  \* invocations of JitGrantFunction by the workflow
    revokeInvocations, \* invocations of JitRevokeFunction by the workflow
    grantInvokedAt,    \* clock of the workflow's grant invocation, -1 before
    grantReturnedAt,   \* clock at which that invocation returned, -1 before
    revokeInvokedAt,   \* clock of the workflow's revoke invocation, -1 before
    grantOutcome,      \* "none", "ok" or "failed": outcome of GrantTempAccess
    revokeOutcome,     \* "none", "ok" or "failed": outcome of RevokeAccess
    taskOutput,        \* the state output ($.Payload of the last task)
    assignments,       \* temporary assignments the requester holds
    operatorAlerts,    \* notifications of an operator about the execution
    directCalls,       \* invocations of the two functions outside the workflow
    lastDirect,        \* what the last such invocation was and returned
    \* ---- S3 remediation actuator ----
    pab,               \* bucket -> its public-access-block configuration
    policy,            \* bucket -> its policy document, or NoPolicy
    apc,               \* delivery -> where its handler run is
    aEvent,            \* delivery -> the event it was invoked with
    aBucket,           \* delivery -> bucket_name
    aDoc,              \* delivery -> policy_doc
    aFetched,          \* delivery -> the Statement list it fetched
    aErrors,           \* delivery -> the steps whose failure it logged
    aCalls,            \* delivery -> the mutating calls it issued, in order
    aFault,            \* delivery -> an API call of this run was made to fail
    aResult,           \* delivery -> what the handler returned
    aBefore,           \* delivery -> the buckets' state when it was received
    aRepeat,           \* delivery -> it handles again the event of the run
                       \* before it, which no failing API call disturbed
    aFetch,            \* delivery -> how its get_bucket_policy call ended
    oWrites,           \* the policies another writer has put on a bucket
    \* ---- finding handler ----
    hpc,               \* where the one run of the handler is
    hEvent,            \* the event it was invoked with
    hLookups,          \* the accessanalyzer.get_finding calls it made
    hProcessed,        \* the findings it gave to process_finding
    hFault,            \* the fault that was raised inside it, None if none
    hResult,           \* what it returned
    \* ---- AccessAnalyzerFindings rule ----
    dInFlight,         \* the event the rule's target is handling, or Null
    dLog,              \* the deliveries handled so far, in order
    \* ---- credential hygiene scanner ----
    accessKeys,        \* user -> the AccessKeyMetadata list IAM keeps
    spc,               \* run -> where the run of the handler is
    sPage,             \* run -> number of the page of users it is on
    sUser,             \* run -> position of the user in that page
    sKeys,             \* run -> access_keys, as list_access_keys returned it
    sKey,              \* run -> position of the key in access_keys
    sDisabled,         \* run -> disabled
    sUpdates,          \* run -> the update_access_key calls it issued
    sVisited,          \* run -> the users whose keys it asked for
    sFailedAt,         \* run -> the user at which an API call failed
    sBefore,           \* run -> accessKeys when the run started
    sResult,           \* run -> what the handler returned
    \* ---- classifier and advisor ----
    pCalls             \* the calls of process_finding so far, with results

jitVars == <<execStatus, jitState, clock, startedAt, waitUntil, endedAt,
             lifecycle, approved, grantInvocations, revokeInvocations,
             grantInvokedAt, grantReturnedAt, revokeInvokedAt, grantOutcome,
             revokeOutcome, taskOutput, assignments, operatorAlerts,
             directCalls, lastDirect>>

actVars == <<pab, policy, apc, aEvent, aBucket, aDoc, aFetched, aErrors,
             aCalls, aFault, aResult, aBefore, aRepeat, aFetch, oWrites>>

hVars == <<hpc, hEvent, hLookups, hProcessed, hFault, hResult>>

dVars == <<dInFlight, dLog>>

scanVars == <<accessKeys, spc, sPage, sUser, sKeys, sKey, sDisabled, sUpdates,
              sVisited, sFailedAt, sBefore, sResult>>

pVars == <<pCalls>>

vars == <<jitVars, actVars, hVars, dVars, scanVars, pVars>>

Null == [none |-> TRUE]

Min(a, b) == IF a <= b THEN a ELSE b

(***************************************************************************)
(* Part 1.  JIT access workflow                                            *)
(***************************************************************************)

\* sfn.Wait(... Duration.minutes(30))
HoldMinutes == 30

\* sfn.StateMachine(... timeout=Duration.hours(2))
CeilingMinutes == 120

\* Granularity of the model's clock and the number of invocations made
\* outside the workflow.
TickMinutes == 15
MaxDirect == 2

Terminal == {"SUCCEEDED", "FAILED", "TIMED_OUT", "ABORTED"}

\* JitGrantFunction: handler(event, context) prints the event and returns
\* {'granted': True}; it calls no provisioning API.
JitGrantHandler(event) == [granted |-> TRUE]

\* What JitGrantFunction does to the requester's temporary assignments.
GrantEffect(n) == n

\* JitRevokeFunction: handler(event, context) prints the event and returns
\* {'revoked': True}; it calls no provisioning API.
JitRevokeHandler(event) == [revoked |-> TRUE]

\* What JitRevokeFunction does to the requester's temporary assignments.
RevokeEffect(n) == n

\* The request the execution is started with.
JitRequest == [requester |-> "alice", targetPermissionSet |-> "TempAdmin",
               justification |-> "ticket"]

\* A wait that does not hold.
WaitDeadline_NoHold(entered) == entered

\* sfn.Wait: the state ends HoldMinutes after it is entered.
WaitDeadline(entered) == entered + HoldMinutes

\* definition = approve.next(grant).next(wait).next(revoke)
NextState(s) ==
    CASE s = "ManagerApproved" -> "GrantTempAccess"
      [] s = "GrantTempAccess" -> "WaitDuration"
      [] s = "WaitDuration"    -> "RevokeAccess"
      [] s = "RevokeAccess"    -> "End"

\* A LambdaInvoke state that fails: neither task carries a Catch, so the
\* failure ends the execution.  The construct attaches no alarm, topic or
\* rule to the state machine: nothing notifies an operator of the outcome.
StatusOnTaskFailure(s) == "FAILED"

Ended(status) ==
    /\ execStatus' = status
    /\ endedAt' = clock
    /\ waitUntil' = -1

JitInit ==
    /\ execStatus = "NOT_STARTED"
    /\ jitState = "None"
    /\ clock = 0
    /\ startedAt = -1
    /\ waitUntil = -1
    /\ endedAt = -1
    /\ lifecycle = <<>>
    /\ approved = FALSE
    /\ grantInvocations = 0
    /\ revokeInvocations = 0
    /\ grantInvokedAt = -1
    /\ grantReturnedAt = -1
    /\ revokeInvokedAt = -1
    /\ grantOutcome = "none"
    /\ revokeOutcome = "none"
    /\ taskOutput = Null
    /\ assignments = 0
    /\ operatorAlerts = {}
    /\ directCalls = 0
    /\ lastDirect = Null

\* A JitAccessRequest is submitted: the execution starts in its first state,
\* the Pass state ManagerApproved.
StartExecution ==
    /\ execStatus = "NOT_STARTED"
    /\ execStatus' = "RUNNING"
    /\ jitState' = "ManagerApproved"
    /\ startedAt' = clock
    /\ lifecycle' = <<"Requested">>
    /\ taskOutput' = JitRequest
    /\ UNCHANGED <<actVars, hVars, dVars, scanVars, pVars, operatorAlerts, clock, waitUntil, endedAt, approved, grantInvocations,
                   revokeInvocations, grantInvokedAt, grantReturnedAt,
                   revokeInvokedAt, grantOutcome, revokeOutcome, assignments,
                   directCalls, lastDirect>>

\* The manual approval the comment of line 205 names: an approver outside the
\* workflow approves the request.  The definition has no state that reads it.
ExternalApproval ==
    /\ execStatus \in {"NOT_STARTED", "RUNNING"}
    /\ ~approved
    /\ approved' = TRUE
    /\ UNCHANGED <<actVars, hVars, dVars, scanVars, pVars, operatorAlerts, execStatus, jitState, clock, startedAt, waitUntil, endedAt,
                   lifecycle, grantInvocations, revokeInvocations,
                   grantInvokedAt, grantReturnedAt, revokeInvokedAt,
                   grantOutcome, revokeOutcome, taskOutput, assignments,
                   directCalls, lastDirect>>

\* approve = sfn.Pass(self, "ManagerApproved"): the Pass state passes its
\* input on and the execution enters GrantTempAccess, which invokes
\* JitGrantFunction.
ManagerApprovedPass ==
    /\ execStatus = "RUNNING"
    /\ jitState = "ManagerApproved"
    /\ jitState' = NextState(jitState)
    /\ lifecycle' = Append(lifecycle, "ManagerApproved")
    /\ grantInvocations' = grantInvocations + 1
    /\ grantInvokedAt' = clock
    /\ UNCHANGED <<actVars, hVars, dVars, scanVars, pVars, operatorAlerts, execStatus, clock, startedAt, waitUntil, endedAt, approved,
                   revokeInvocations, grantReturnedAt, revokeInvokedAt,
                   grantOutcome, revokeOutcome, taskOutput, assignments,
                   directCalls, lastDirect>>

\* GrantTempAccess succeeds: the handler's return value becomes the state
\* output (output_path="$.Payload") and the execution enters WaitDuration.
GrantReturns ==
    /\ execStatus = "RUNNING"
    /\ jitState = "GrantTempAccess"
    /\ taskOutput' = JitGrantHandler(taskOutput)
    /\ assignments' = GrantEffect(assignments)
    /\ grantOutcome' = "ok"
    /\ grantReturnedAt' = clock
    /\ jitState' = NextState(jitState)
    /\ waitUntil' = WaitDeadline(clock)
    /\ lifecycle' = Append(lifecycle, "Granted")
    /\ UNCHANGED <<actVars, hVars, dVars, scanVars, pVars, operatorAlerts, execStatus, clock, startedAt, endedAt, approved,
                   grantInvocations, revokeInvocations, grantInvokedAt,
                   revokeInvokedAt, revokeOutcome, directCalls, lastDirect>>

\* GrantTempAccess fails (the invocation is throttled, denied, times out or
\* the service errs).
GrantFails ==
    /\ execStatus = "RUNNING"
    /\ jitState = "GrantTempAccess"
    /\ grantOutcome' = "failed"
    /\ Ended(StatusOnTaskFailure(jitState))
    /\ UNCHANGED <<actVars, hVars, dVars, scanVars, pVars, operatorAlerts, jitState, clock, startedAt, lifecycle, approved,
                   grantInvocations, revokeInvocations, grantInvokedAt,
                   grantReturnedAt, revokeInvokedAt, revokeOutcome, taskOutput,
                   assignments, directCalls, lastDirect>>

\* WaitDuration ends: the execution enters RevokeAccess, which invokes
\* JitRevokeFunction.
WaitElapsed ==
    /\ execStatus = "RUNNING"
    /\ jitState = "WaitDuration"
    /\ clock >= waitUntil
    /\ jitState' = NextState(jitState)
    /\ waitUntil' = -1
    /\ revokeInvocations' = revokeInvocations + 1
    /\ revokeInvokedAt' = clock
    /\ UNCHANGED <<actVars, hVars, dVars, scanVars, pVars, operatorAlerts, execStatus, clock, startedAt, endedAt, lifecycle, approved,
                   grantInvocations, grantInvokedAt, grantReturnedAt,
                   grantOutcome, revokeOutcome, taskOutput, assignments,
                   directCalls, lastDirect>>

\* RevokeAccess succeeds: it is the last state, the execution succeeds.
RevokeReturns ==
    /\ execStatus = "RUNNING"
    /\ jitState = "RevokeAccess"
    /\ taskOutput' = JitRevokeHandler(taskOutput)
    /\ assignments' = RevokeEffect(assignments)
    /\ revokeOutcome' = "ok"
    /\ jitState' = NextState(jitState)
    /\ lifecycle' = Append(lifecycle, "Revoked")
    /\ Ended("SUCCEEDED")
    /\ UNCHANGED <<actVars, hVars, dVars, scanVars, pVars, operatorAlerts, clock, startedAt, approved, grantInvocations,
                   revokeInvocations, grantInvokedAt, grantReturnedAt,
                   revokeInvokedAt, grantOutcome, directCalls, lastDirect>>

\* RevokeAccess fails.
RevokeFails ==
    /\ execStatus = "RUNNING"
    /\ jitState = "RevokeAccess"
    /\ revokeOutcome' = "failed"
    /\ Ended(StatusOnTaskFailure(jitState))
    /\ UNCHANGED <<actVars, hVars, dVars, scanVars, pVars, operatorAlerts, jitState, clock, startedAt, lifecycle, approved,
                   grantInvocations, revokeInvocations, grantInvokedAt,
                   grantReturnedAt, revokeInvokedAt, grantOutcome, taskOutput,
                   assignments, directCalls, lastDirect>>

\* The next instant the execution has to act at: the end of the wait or the
\* ceiling, whichever is first.
NextDeadline ==
    IF jitState = "WaitDuration"
    THEN Min(waitUntil, startedAt + CeilingMinutes)
    ELSE startedAt + CeilingMinutes

\* Time passes while the execution runs.  The Pass state takes no time.  The
\* two LambdaInvoke states set no task timeout, so a task is in progress for
\* as long as its invocation has not returned (the model puts no bound on
\* the time the Lambda service takes to dispatch, retry and answer); the wait
\* ends at its deadline and the execution at its ceiling.
Tick ==
    /\ execStatus = "RUNNING"
    /\ jitState # "ManagerApproved"
    /\ clock < NextDeadline
    /\ clock' = Min(clock + TickMinutes, NextDeadline)
    /\ UNCHANGED <<actVars, hVars, dVars, scanVars, pVars, operatorAlerts, execStatus, jitState, startedAt, waitUntil, endedAt,
                   lifecycle, approved, grantInvocations, revokeInvocations,
                   grantInvokedAt, grantReturnedAt, revokeInvokedAt,
                   grantOutcome, revokeOutcome, taskOutput, assignments,
                   directCalls, lastDirect>>

\* timeout=Duration.hours(2): the ceiling is reached while the execution
\* runs.  The execution ends TIMED_OUT and runs no further state (the
\* definition has nothing that handles it).
ExecutionTimeout ==
    /\ execStatus = "RUNNING"
    /\ clock >= startedAt + CeilingMinutes
    /\ Ended("TIMED_OUT")
    /\ UNCHANGED <<actVars, hVars, dVars, scanVars, pVars, operatorAlerts, jitState, clock, startedAt, lifecycle, approved,
                   grantInvocations, revokeInvocations, grantInvokedAt,
                   grantReturnedAt,
                   revokeInvokedAt, grantOutcome, revokeOutcome, taskOutput,
                   assignments, directCalls, lastDirect>>

\* External cancellation of the running execution: it ends ABORTED and runs
\* no further state.
StopExecution ==
    /\ execStatus = "RUNNING"
    /\ Ended("ABORTED")
    /\ UNCHANGED <<actVars, hVars, dVars, scanVars, pVars, operatorAlerts, jitState, clock, startedAt, lifecycle, approved,
                   grantInvocations, revokeInvocations, grantInvokedAt,
                   grantReturnedAt, revokeInvokedAt, grantOutcome,
                   revokeOutcome, taskOutput, assignments, directCalls,
                   lastDirect>>

\* JitGrantFunction invoked again with the request's identifiers, outside
\* the workflow.
DirectGrant ==
    /\ directCalls < MaxDirect
    /\ directCalls' = directCalls + 1
    /\ assignments' = GrantEffect(assignments)
    /\ lastDirect' = [fn |-> "grant", result |-> JitGrantHandler(JitRequest),
                      before |-> assignments,
                      after |-> GrantEffect(assignments),
                      granted |-> (grantOutcome = "ok"),
                      revoked |-> (revokeOutcome = "ok")]
    /\ UNCHANGED <<actVars, hVars, dVars, scanVars, pVars, operatorAlerts, execStatus, jitState, clock, startedAt, waitUntil, endedAt,
                   lifecycle, approved, grantInvocations, revokeInvocations,
                   grantInvokedAt, grantReturnedAt, revokeInvokedAt,
                   grantOutcome, revokeOutcome, taskOutput>>

\* JitRevokeFunction invoked with the request's identifiers, outside the
\* workflow, whatever state the request is in.
DirectRevoke ==
    /\ directCalls < MaxDirect
    /\ directCalls' = directCalls + 1
    /\ assignments' = RevokeEffect(assignments)
    /\ lastDirect' = [fn |-> "revoke", result |-> JitRevokeHandler(JitRequest),
                      before |-> assignments,
                      after |-> RevokeEffect(assignments),
                      granted |-> (grantOutcome = "ok"),
                      revoked |-> (revokeOutcome = "ok")]
    /\ UNCHANGED <<actVars, hVars, dVars, scanVars, pVars, operatorAlerts, execStatus, jitState, clock, startedAt, waitUntil, endedAt,
                   lifecycle, approved, grantInvocations, revokeInvocations,
                   grantInvokedAt, grantReturnedAt, revokeInvokedAt,
                   grantOutcome, revokeOutcome, taskOutput>>

JitNext ==
    \/ StartExecution
    \/ ExternalApproval
    \/ ManagerApprovedPass
    \/ GrantReturns
    \/ GrantFails
    \/ WaitElapsed
    \/ RevokeReturns
    \/ RevokeFails
    \/ Tick
    \/ ExecutionTimeout
    \/ StopExecution
    \/ DirectGrant
    \/ DirectRevoke

(***************************************************************************)
(* Part 2.  S3 remediation actuator                                        *)
(*                                                                         *)
(* S3 is a store: a call that is not made to fail does what it is asked.   *)
(* A string is kept as the list of its pieces between colons, so that      *)
(* split(":") is the identity on the list and "" is the list <<"">>.       *)
(***************************************************************************)

\* Longest Statement list of an initial policy.
MaxStatements == 2

Deliveries == {1, 2}

Buckets == {"my-bucket", "other-bucket"}

NoPolicy == [noSuchBucketPolicy |-> TRUE]

\* Python's None where a string is expected, where a colon-split string is
\* expected, and the empty dict.
None == "None"

NoResource == <<>>

EmptyDict == <<>>

EmptyString == <<"">>

BucketArn(b) == <<"arn", "aws", "s3", "", "", b>>

RoleArn == <<"arn", "aws", "iam", "", "111122223333", "role/Admin">>

\* Principal values of a statement: "*", {"AWS": "*"}, {"AWS": <an account>}.
StarPrincipal == [string |-> "*"]
AwsStarPrincipal == [AWS |-> "*"]
AwsAccountPrincipal == [AWS |-> "arn:aws:iam::111122223333:root"]

Principals == {StarPrincipal, AwsStarPrincipal, AwsAccountPrincipal}

Statements == [Effect : {"Allow", "Deny"}, Principal : Principals]

RECURSIVE SeqsUpTo(_, _)
SeqsUpTo(S, n) ==
    IF n = 0 THEN {<<>>}
    ELSE LET shorter == SeqsUpTo(S, n - 1)
         IN  shorter \cup {Append(q, x) : q \in shorter, x \in S}

PolicyDocs ==
    {[Version |-> "2012-10-17", Statement |-> q] :
        q \in SeqsUpTo(Statements, MaxStatements)}

\* A policy as S3 keeps it: a JSON text.  Two texts of one document differ in
\* their layout (white space, separators): the one its author wrote and the
\* one json.dumps writes.
PolicyTexts == [layout : {"authored", "json.dumps"}, doc : PolicyDocs]

\* json.loads(text)
JsonLoads(text) == text.doc

\* json.dumps(doc)
JsonDumps(doc) == [layout |-> "json.dumps", doc |-> doc]

AllBlocked == [BlockPublicAcls |-> TRUE, IgnorePublicAcls |-> TRUE,
               BlockPublicPolicy |-> TRUE, RestrictPublicBuckets |-> TRUE]

NoneBlocked == [BlockPublicAcls |-> FALSE, IgnorePublicAcls |-> FALSE,
                BlockPublicPolicy |-> FALSE, RestrictPublicBuckets |-> FALSE]

S3Finding(b, code) ==
    [resourceType |-> "AWS::S3::Bucket", resource |-> BucketArn(b),
     issueCode |-> code]

\* The events the dispatcher delivers: S3 findings about either bucket with a
\* public-exposure or another issue code, an S3 finding with no resource or
\* an empty one, a finding about a role, an event with no detail, and an
\* event whose detail.finding is not an object.
Events ==
    {[detail |-> [finding |-> S3Finding(b, c)]] :
        b \in Buckets,
        c \in {"S3_BUCKET_PUBLIC_READ_ACCESS", "S3_BUCKET_LOGGING_DISABLED"}}
    \cup {[detail |-> [finding |-> [resourceType |-> "AWS::S3::Bucket",
                                    issueCode |-> "S3_BUCKET_PUBLIC_READ_ACCESS"]]],
          [detail |-> [finding |-> [resourceType |-> "AWS::S3::Bucket",
                                    resource |-> EmptyString,
                                    issueCode |-> "S3_BUCKET_PUBLIC_READ_ACCESS"]]],
          [detail |-> [finding |-> [resourceType |-> "AWS::IAM::Role",
                                    resource |-> RoleArn,
                                    issueCode |-> "IAM_ROLE_ALLOWS_PUBLIC_ASSUMPTION"]]],
          [source |-> "aws.access-analyzer"],
          [detail |-> [finding |-> [notAnObject |-> "finding-id"]]]}

\* dict.get(key, default)
Get(d, key, default) == IF key \in DOMAIN d THEN d[key] ELSE default

IsObject(v) == "notAnObject" \notin DOMAIN v

\* truth value of `resource`: None and "" are false
Truthy(v) == v # NoResource /\ v # EmptyString

\* resource.split(":")[-1]
BucketName(resource) == resource[Len(resource)]

\* The test of line 40 without its effect == "Allow" part.
IsWildcardAllow_AnyEffect(stmt) ==
    LET principal == Get(stmt, "Principal", Null)
    IN  principal = StarPrincipal \/ principal = AwsStarPrincipal

\* effect == "Allow" and (principal == "*" or principal == {"AWS": "*"})
IsWildcardAllow(stmt) ==
    LET principal == Get(stmt, "Principal", Null)
        effect == Get(stmt, "Effect", None)
    IN  effect = "Allow"
        /\ (principal = StarPrincipal \/ principal = AwsStarPrincipal)

\* The loop of lines 36-43 with the kept statements put in front.
RECURSIVE FilterStatements_Reversed(_)
FilterStatements_Reversed(statements) ==
    IF statements = <<>> THEN <<>>
    ELSE IF IsWildcardAllow(Head(statements))
         THEN FilterStatements_Reversed(Tail(statements))
         ELSE Append(FilterStatements_Reversed(Tail(statements)),
                     Head(statements))

\* The loop of lines 36-43 leaving at the first statement it drops.
RECURSIVE FilterStatements_DropFirst(_)
FilterStatements_DropFirst(statements) ==
    IF statements = <<>> THEN <<>>
    ELSE IF IsWildcardAllow(Head(statements))
         THEN Tail(statements)
         ELSE <<Head(statements)>> \o FilterStatements_DropFirst(Tail(statements))

\* filtered = []; for stmt in statements: drop it or filtered.append(stmt)
RECURSIVE FilterStatements(_)
FilterStatements(statements) ==
    IF statements = <<>> THEN <<>>
    ELSE IF IsWildcardAllow(Head(statements))
         THEN FilterStatements(Tail(statements))
         ELSE <<Head(statements)>> \o FilterStatements(Tail(statements))

\* resource_type == "AWS::S3::Bucket" and resource
ShouldRemediate(finding) ==
    /\ Get(finding, "resourceType", None) = "AWS::S3::Bucket"
    /\ Truthy(Get(finding, "resource", NoResource))

\* The PublicAccessBlockConfiguration of lines 21-26.
PublicAccessBlockConfiguration == AllBlocked

\* A configuration that leaves one flag off.
PabOnSuccess_Partial(old) == [AllBlocked EXCEPT !.RestrictPublicBuckets = FALSE]

\* What a bucket's configuration is after put_public_access_block succeeds.
PabOnSuccess(old) == PublicAccessBlockConfiguration

BucketState == [pab |-> pab, policy |-> policy]

\* A handler that leaves out the policy step when the first step failed.
AfterPublicAccessBlock_AbortOnFailure(ok) ==
    IF ok THEN "get_bucket_policy" ELSE "log"

\* Where the handler goes on after the try block of lines 18-29, the call
\* having succeeded or not: the except clause prints and falls through to
\* the try block of line 32.
AfterPublicAccessBlock(ok) == "get_bucket_policy"

\* An except clause that records NoSuchBucketPolicy as a failure.
OnNoSuchBucketPolicy_Logged(errors) == errors \cup {"bucket_policy"}

\* except s3.exceptions.NoSuchBucketPolicy: pass (lines 46-47): nothing is
\* printed.
OnNoSuchBucketPolicy(errors) == errors


\* No handler run has started.
ActRunsIdle ==
    /\ apc = [w \in Deliveries |-> "idle"]
    /\ aEvent = [w \in Deliveries |-> Null]
    /\ aBucket = [w \in Deliveries |-> None]
    /\ aDoc = [w \in Deliveries |-> Null]
    /\ aFetched = [w \in Deliveries |-> <<>>]
    /\ aErrors = [w \in Deliveries |-> {}]
    /\ aCalls = [w \in Deliveries |-> <<>>]
    /\ aFault = [w \in Deliveries |-> FALSE]
    /\ aResult = [w \in Deliveries |-> Null]
    /\ aBefore = [w \in Deliveries |-> Null]
    /\ aRepeat = [w \in Deliveries |-> FALSE]
    /\ aFetch = [w \in Deliveries |-> "none"]
    /\ oWrites = <<>>

ActInit ==
    /\ pab \in [Buckets -> {NoneBlocked,
                            [NoneBlocked EXCEPT !.BlockPublicAcls = TRUE]}]
    /\ policy \in [Buckets -> PolicyTexts \cup {NoPolicy}]
    /\ policy["other-bucket"] =
          [layout |-> "authored",
           doc |-> [Version |-> "2012-10-17",
                    Statement |-> <<[Effect |-> "Allow",
                                     Principal |-> StarPrincipal]>>]]
    /\ pab["other-bucket"] = NoneBlocked
    /\ ActRunsIdle

\* The actuator before any delivery, with one bucket state.
ActIdle ==
    /\ pab = [b \in Buckets |-> NoneBlocked]
    /\ policy =
          [b \in Buckets |->
              IF b = "my-bucket" THEN NoPolicy
              ELSE [layout |-> "authored",
                    doc |-> [Version |-> "2012-10-17",
                             Statement |-> <<[Effect |-> "Allow",
                                              Principal |-> StarPrincipal]>>]]]
    /\ ActRunsIdle

\* handler(event, context), lines 11-16: the event is read and the handler
\* decides whether to act.  A detail.finding that is not an object makes
\* finding.get raise out of the handler.
Receive(w, event) ==
    /\ apc[w] = "idle"
    /\ LET detail == Get(event, "detail", EmptyDict)
           finding == Get(detail, "finding", EmptyDict)
       IN  /\ aEvent' = [aEvent EXCEPT ![w] = event]
           /\ aErrors' = [aErrors EXCEPT ![w] = {}]
           /\ aCalls' = [aCalls EXCEPT ![w] = <<>>]
           /\ aFault' = [aFault EXCEPT ![w] = FALSE]
           /\ aDoc' = [aDoc EXCEPT ![w] = Null]
           /\ aFetched' = [aFetched EXCEPT ![w] = <<>>]
           /\ aResult' = [aResult EXCEPT ![w] = Null]
           /\ aFetch' = [aFetch EXCEPT ![w] = "none"]
           /\ aBefore' = [aBefore EXCEPT ![w] = BucketState]
           /\ aRepeat' = [aRepeat EXCEPT ![w] =
                 /\ aResult[w] = [status |-> "ok"]
                 /\ aEvent[w] = event
                 /\ ~aFault[w]]
           /\ IF ~IsObject(finding)
              THEN /\ apc' = [apc EXCEPT ![w] = "raised"]
                   /\ aBucket' = [aBucket EXCEPT ![w] = None]
              ELSE IF ShouldRemediate(finding)
              THEN /\ apc' = [apc EXCEPT ![w] = "put_public_access_block"]
                   /\ aBucket' = [aBucket EXCEPT
                                    ![w] = BucketName(finding.resource)]
              ELSE /\ apc' = [apc EXCEPT ![w] = "log"]
                   /\ aBucket' = [aBucket EXCEPT ![w] = None]
    /\ UNCHANGED <<jitVars, hVars, dVars, scanVars, pVars, oWrites, pab, policy>>

\* s3.put_public_access_block succeeds (lines 18-27).
PutPublicAccessBlockOk(w) ==
    /\ apc[w] = "put_public_access_block"
    /\ aBucket[w] \in Buckets
    /\ pab' = [pab EXCEPT ![aBucket[w]] = PabOnSuccess(@)]
    /\ aCalls' = [aCalls EXCEPT ![w] =
          Append(@, [op |-> "put_public_access_block", bucket |-> aBucket[w],
                     ok |-> TRUE])]
    /\ apc' = [apc EXCEPT ![w] = AfterPublicAccessBlock(TRUE)]
    /\ UNCHANGED <<jitVars, hVars, dVars, scanVars, pVars, oWrites, aFetch, policy, aEvent, aBucket, aDoc, aFetched, aErrors, aFault,
                   aResult, aBefore, aRepeat>>

\* s3.put_public_access_block raises: the failure is printed (lines 28-29)
\* and the handler goes on.
PutPublicAccessBlockFails(w) ==
    /\ apc[w] = "put_public_access_block"
    /\ aFault' = [aFault EXCEPT ![w] = TRUE]
    /\ aErrors' = [aErrors EXCEPT ![w] = @ \cup {"public_access_block"}]
    /\ aCalls' = [aCalls EXCEPT ![w] =
          Append(@, [op |-> "put_public_access_block", bucket |-> aBucket[w],
                     ok |-> FALSE])]
    /\ apc' = [apc EXCEPT ![w] = AfterPublicAccessBlock(FALSE)]
    /\ UNCHANGED <<jitVars, hVars, dVars, scanVars, pVars, oWrites, aFetch, pab, policy, aEvent, aBucket, aDoc, aFetched, aResult,
                   aBefore, aRepeat>>

\* s3.get_bucket_policy succeeds: the document is parsed, its statements
\* filtered and put back into policy_doc (lines 33-44).
GetBucketPolicyOk(w) ==
    /\ apc[w] = "get_bucket_policy"
    /\ aFetch' = [aFetch EXCEPT ![w] = "ok"]
    /\ aBucket[w] \in Buckets
    /\ policy[aBucket[w]] # NoPolicy
    /\ LET policy_resp == [Policy |-> policy[aBucket[w]]]
           policy_doc == JsonLoads(policy_resp.Policy)
           statements == Get(policy_doc, "Statement", <<>>)
           filtered == FilterStatements(statements)
       IN  /\ aFetched' = [aFetched EXCEPT ![w] = statements]
           /\ aDoc' = [aDoc EXCEPT ![w] =
                 [k \in DOMAIN policy_doc \cup {"Statement"} |->
                     IF k = "Statement" THEN filtered ELSE policy_doc[k]]]
    /\ apc' = [apc EXCEPT ![w] = "put_bucket_policy"]
    /\ UNCHANGED <<jitVars, hVars, dVars, scanVars, pVars, oWrites, pab, policy, aEvent, aBucket, aErrors, aCalls, aFault,
                   aResult, aBefore, aRepeat>>

\* The bucket has no policy: NoSuchBucketPolicy is passed over (lines 46-47).
GetBucketPolicyNone(w) ==
    /\ apc[w] = "get_bucket_policy"
    /\ aFetch' = [aFetch EXCEPT ![w] = "NoSuchBucketPolicy"]
    /\ aBucket[w] \in Buckets
    /\ policy[aBucket[w]] = NoPolicy
    /\ aErrors' = [aErrors EXCEPT ![w] = OnNoSuchBucketPolicy(@)]
    /\ apc' = [apc EXCEPT ![w] = "log"]
    /\ UNCHANGED <<jitVars, hVars, dVars, scanVars, pVars, oWrites, pab, policy, aEvent, aBucket, aDoc, aFetched,
                   aCalls, aFault, aResult, aBefore, aRepeat>>

\* s3.get_bucket_policy raises something else: the failure is printed
\* (lines 48-49).
GetBucketPolicyFails(w) ==
    /\ apc[w] = "get_bucket_policy"
    /\ aFetch' = [aFetch EXCEPT ![w] = "error"]
    /\ aFault' = [aFault EXCEPT ![w] = TRUE]
    /\ aErrors' = [aErrors EXCEPT ![w] = @ \cup {"bucket_policy"}]
    /\ apc' = [apc EXCEPT ![w] = "log"]
    /\ UNCHANGED <<jitVars, hVars, dVars, scanVars, pVars, oWrites, pab, policy, aEvent, aBucket, aDoc, aFetched, aCalls,
                   aResult, aBefore, aRepeat>>

\* s3.put_bucket_policy succeeds (line 45): the bucket's policy is the text
\* json.dumps(policy_doc).
PutBucketPolicyOk(w) ==
    /\ apc[w] = "put_bucket_policy"
    /\ policy' = [policy EXCEPT ![aBucket[w]] = JsonDumps(aDoc[w])]
    /\ aCalls' = [aCalls EXCEPT ![w] =
          Append(@, [op |-> "put_bucket_policy", bucket |-> aBucket[w],
                     ok |-> TRUE, Policy |-> JsonDumps(aDoc[w]),
                     fetched |-> aFetched[w]])]
    /\ apc' = [apc EXCEPT ![w] = "log"]
    /\ UNCHANGED <<jitVars, hVars, dVars, scanVars, pVars, oWrites, aFetch, pab, aEvent, aBucket, aDoc, aFetched, aErrors, aFault,
                   aResult, aBefore, aRepeat>>

\* s3.put_bucket_policy raises: the failure is printed (lines 48-49).
PutBucketPolicyFails(w) ==
    /\ apc[w] = "put_bucket_policy"
    /\ aFault' = [aFault EXCEPT ![w] = TRUE]
    /\ aErrors' = [aErrors EXCEPT ![w] = @ \cup {"bucket_policy"}]
    /\ aCalls' = [aCalls EXCEPT ![w] =
          Append(@, [op |-> "put_bucket_policy", bucket |-> aBucket[w],
                     ok |-> FALSE, Policy |-> JsonDumps(aDoc[w]),
                     fetched |-> aFetched[w]])]
    /\ apc' = [apc EXCEPT ![w] = "log"]
    /\ UNCHANGED <<jitVars, hVars, dVars, scanVars, pVars, oWrites, aFetch, pab, policy, aEvent, aBucket, aDoc, aFetched, aResult,
                   aBefore, aRepeat>>

\* print(json.dumps(event)); return {"status": "ok"} (lines 52-53).
Return(w) ==
    /\ apc[w] = "log"
    /\ aResult' = [aResult EXCEPT ![w] = [status |-> "ok"]]
    /\ apc' = [apc EXCEPT ![w] = "idle"]
    /\ UNCHANGED <<jitVars, hVars, dVars, scanVars, pVars, oWrites, aFetch, pab, policy, aEvent, aBucket, aDoc, aFetched, aErrors,
                   aCalls, aFault, aBefore, aRepeat>>

\* The exception of Receive leaves the handler: the invocation ends in error.
Raise(w) ==
    /\ apc[w] = "raised"
    /\ aResult' = [aResult EXCEPT ![w] = [errorType |-> "AttributeError"]]
    /\ apc' = [apc EXCEPT ![w] = "idle"]
    /\ UNCHANGED <<jitVars, hVars, dVars, scanVars, pVars, oWrites, aFetch, pab, policy, aEvent, aBucket, aDoc, aFetched, aErrors,
                   aCalls, aFault, aBefore, aRepeat>>

\* One run of the handler at a time: the deliveries are handled in turn.
ActNext ==
    \/ \E event \in Events : Receive(1, event)
    \/ PutPublicAccessBlockOk(1)
    \/ PutPublicAccessBlockFails(1)
    \/ GetBucketPolicyOk(1)
    \/ GetBucketPolicyNone(1)
    \/ GetBucketPolicyFails(1)
    \/ PutBucketPolicyOk(1)
    \/ PutBucketPolicyFails(1)
    \/ Return(1)
    \/ Raise(1)

\* The finding the dispatcher delivers twice (at-least-once delivery).
PublicExposureEvents ==
    {[detail |-> [finding |-> S3Finding(b, "S3_BUCKET_PUBLIC_READ_ACCESS")]] :
        b \in Buckets}

\* One of the two deliveries of the same finding reaches a handler run.  The
\* runs are numbered in the order in which the deliveries arrive; the second
\* may arrive at any point of the first run or after it.
Deliver(w, event) ==
    /\ aResult[w] = Null
    /\ aEvent[w] = Null
    /\ w # 1 => aEvent[1] = event
    /\ Receive(w, event)

\* Two runs of the handler at the same time, no lock between them: each call
\* to S3 is one step, and the steps of the two runs interleave freely.
ConcurrentNext ==
    \E w \in Deliveries :
        \/ \E event \in PublicExposureEvents : Deliver(w, event)
        \/ PutPublicAccessBlockOk(w)
        \/ GetBucketPolicyOk(w)
        \/ GetBucketPolicyNone(w)
        \/ PutBucketPolicyOk(w)
        \/ Return(w)

\* Most policy writes of the other writer in one behaviour.
MaxOtherWrites == 1

\* The policies another principal puts on a bucket: texts as their author
\* wrote them.
OtherWriterTexts == {text \in PolicyTexts : text.layout = "authored"}

\* Another principal calls s3.put_bucket_policy on a bucket.  S3 holds no
\* lock for the handler between its get_bucket_policy (line 33) and its
\* put_bucket_policy (line 45), so the call may fall anywhere.
OtherWriterPuts(b, text) ==
    /\ Len(oWrites) < MaxOtherWrites
    /\ policy' = [policy EXCEPT ![b] = text]
    /\ oWrites' = Append(oWrites, [bucket |-> b, Policy |-> text])
    /\ UNCHANGED <<jitVars, hVars, dVars, scanVars, pVars, aFetch, pab, apc,
                   aEvent, aBucket, aDoc, aFetched, aErrors, aCalls, aFault,
                   aResult, aBefore, aRepeat>>

\* One run of the handler on a public-exposure finding, no call of its own
\* made to fail, and the other writer.
OtherWriterNext ==
    \/ \E event \in PublicExposureEvents : Deliver(1, event)
    \/ PutPublicAccessBlockOk(1)
    \/ GetBucketPolicyOk(1)
    \/ GetBucketPolicyNone(1)
    \/ PutBucketPolicyOk(1)
    \/ Return(1)
    \/ \E b \in Buckets : \E text \in OtherWriterTexts : OtherWriterPuts(b, text)

(***************************************************************************)
(* Part 3.  Finding handler, classifier and advisor (lambda_remediation)   *)
(***************************************************************************)

AnalyzerArn == "arn:aws:access-analyzer:us-east-1:111122223333:analyzer/org"

FindingIds == {"finding-1", "finding-2"}

ResourceTypes ==
    {"AWS::IAM::Role", "AWS::IAM::User", "AWS::S3::Bucket", "AWS::KMS::Key",
     "AWS::Lambda::Function"}

high_risk_issues ==
    {"S3_BUCKET_PUBLIC_READ_ACCESS", "S3_BUCKET_PUBLIC_WRITE_ACCESS",
     "IAM_ROLE_ALLOWS_PUBLIC_ASSUMPTION", "KMS_KEY_WITH_SYMMETRIC_ENCRYPTION",
     "IAM_POLICY_ALLOWS_PUBLIC_ACCESS"}

medium_risk_issues ==
    {"S3_BUCKET_LOGGING_DISABLED", "IAM_ROLE_OVERLY_PERMISSIVE",
     "KMS_KEY_ROTATION_DISABLED"}

IssueCodes ==
    high_risk_issues \cup medium_risk_issues
    \cup {"IAM_USER_UNUSED_ACCESS_KEY", "IAM_USER_UNUSED_CREDENTIALS",
          "UNLISTED_ISSUE"}

\* assess_risk_level that leaves an unlisted code at the initial UNKNOWN.
assess_risk_level_Unknown(resource_type, issue_code) ==
    IF issue_code \in high_risk_issues THEN "HIGH"
    ELSE IF issue_code \in medium_risk_issues THEN "MEDIUM"
    ELSE "UNKNOWN"

\* assess_risk_level(resource_type, issue_code)
assess_risk_level(resource_type, issue_code) ==
    IF issue_code \in high_risk_issues THEN "HIGH"
    ELSE IF issue_code \in medium_risk_issues THEN "MEDIUM"
    ELSE "LOW"

get_role_remediation(finding) ==
    LET issue_code == Get(finding, "issueCode", "")
    IN  IF issue_code = "IAM_ROLE_ALLOWS_PUBLIC_ASSUMPTION"
        THEN <<"Remove the public trust policy from the role",
               "Add conditions to restrict who can assume the role",
               "Consider using AWS Organizations SCPs to prevent public role assumption">>
        ELSE IF issue_code = "IAM_ROLE_OVERLY_PERMISSIVE"
        THEN <<"Review and reduce the permissions attached to the role",
               "Apply the principle of least privilege",
               "Use specific resource ARNs instead of wildcards where possible",
               "Consider using AWS managed policies instead of custom policies">>
        ELSE <<"Review the role's trust policy and attached permissions">>

get_user_remediation(finding) ==
    LET issue_code == Get(finding, "issueCode", "")
    IN  IF issue_code = "IAM_USER_UNUSED_ACCESS_KEY"
        THEN <<"Delete unused access keys",
               "Implement access key rotation policies",
               "Consider using IAM roles instead of access keys">>
        ELSE IF issue_code = "IAM_USER_UNUSED_CREDENTIALS"
        THEN <<"Remove unused credentials",
               "Implement credential lifecycle management",
               "Consider using AWS SSO for user access">>
        ELSE <<"Review user permissions and remove unnecessary access">>

\* The S3 advice with no step for a code it does not know.
get_s3_remediation_NoFallback(finding) ==
    LET issue_code == Get(finding, "issueCode", "")
    IN  IF issue_code = "S3_BUCKET_PUBLIC_READ_ACCESS"
        THEN <<"Remove public read access from the bucket policy",
               "Enable S3 Block Public Access settings",
               "Review and update bucket ACLs">>
        ELSE <<>>

get_s3_remediation(finding) ==
    LET issue_code == Get(finding, "issueCode", "")
    IN  IF issue_code = "S3_BUCKET_PUBLIC_READ_ACCESS"
        THEN <<"Remove public read access from the bucket policy",
               "Enable S3 Block Public Access settings",
               "Review and update bucket ACLs">>
        ELSE IF issue_code = "S3_BUCKET_PUBLIC_WRITE_ACCESS"
        THEN <<"Remove public write access from the bucket policy",
               "Enable S3 Block Public Access settings",
               "Implement proper access controls">>
        ELSE IF issue_code = "S3_BUCKET_LOGGING_DISABLED"
        THEN <<"Enable S3 server access logging",
               "Configure CloudTrail for S3 API calls",
               "Set up monitoring and alerting">>
        ELSE <<"Review bucket policies and access controls">>

get_kms_remediation(finding) ==
    LET issue_code == Get(finding, "issueCode", "")
    IN  IF issue_code = "KMS_KEY_WITH_SYMMETRIC_ENCRYPTION"
        THEN <<"Consider using asymmetric encryption for better security",
               "Review key usage patterns",
               "Implement proper key rotation">>
        ELSE IF issue_code = "KMS_KEY_ROTATION_DISABLED"
        THEN <<"Enable automatic key rotation",
               "Implement manual key rotation procedures",
               "Review key lifecycle management">>
        ELSE <<"Review KMS key policies and usage">>

\* The generic list without its last step.
get_generic_remediation_Short(finding) ==
    <<"Review the resource's access policies",
      "Apply the principle of least privilege",
      "Consider using AWS Organizations SCPs for additional controls">>

get_generic_remediation(finding) ==
    <<"Review the resource's access policies",
      "Apply the principle of least privilege",
      "Consider using AWS Organizations SCPs for additional controls",
      "Implement monitoring and alerting for this resource type">>

\* process_finding with a risk level that looks at the finding's status.
process_finding_StatusAware(finding) ==
    [findingId |-> Get(finding, "id", None),
     resourceType |-> Get(finding, "resourceType", ""),
     status |-> Get(finding, "status", ""),
     issueCode |-> Get(finding, "issueCode", ""),
     remediation |-> get_generic_remediation(finding),
     riskLevel |->
        IF Get(finding, "status", "") = "ARCHIVED" THEN "LOW"
        ELSE assess_risk_level(Get(finding, "resourceType", ""),
                               Get(finding, "issueCode", ""))]

\* process_finding(finding), for a finding that is an object
process_finding(finding) ==
    LET finding_type == Get(finding, "resourceType", "")
        status == Get(finding, "status", "")
        issue_code == Get(finding, "issueCode", "")
    IN  [findingId |-> Get(finding, "id", None),
         resourceType |-> finding_type,
         status |-> status,
         issueCode |-> issue_code,
         remediation |->
            IF finding_type = "AWS::IAM::Role"
            THEN get_role_remediation(finding)
            ELSE IF finding_type = "AWS::IAM::User"
            THEN get_user_remediation(finding)
            ELSE IF finding_type = "AWS::S3::Bucket"
            THEN get_s3_remediation(finding)
            ELSE IF finding_type = "AWS::KMS::Key"
            THEN get_kms_remediation(finding)
            ELSE get_generic_remediation(finding),
         riskLevel |-> assess_risk_level(finding_type, issue_code)]

\* The findings Access Analyzer can hold under the id: every resource type
\* with every issue code, and a finding with no field but its id.
AnalyzerFindings ==
    [id : FindingIds, resourceType : ResourceTypes, issueCode : IssueCodes,
     status : {"ACTIVE"}]
    \cup {[id |-> id] : id \in FindingIds}

\* What accessanalyzer.get_finding can answer: a finding, an answer with no
\* finding in it or with an empty one, and an answer whose finding is not an
\* object.
GetFindingResponses ==
    {[finding |-> f] : f \in AnalyzerFindings}
    \cup {[ResponseMetadata |-> "200"],
          [finding |-> EmptyDict],
          [finding |-> [notAnObject |-> "text"]]}

\* The events the handler is invoked with: a complete one, events whose
\* detail lacks id, analyzerArn or both or holds an empty value, an event
\* with no detail, and events whose detail is not an object or is null.
HandlerEvents ==
    {[detail |-> [id |-> id, analyzerArn |-> AnalyzerArn]] : id \in FindingIds}
    \cup
    {[detail |-> [id |-> "finding-1"]],
     [detail |-> [analyzerArn |-> AnalyzerArn]],
     [detail |-> [id |-> "", analyzerArn |-> AnalyzerArn]],
     [detail |-> [id |-> "finding-1", analyzerArn |-> ""]],
     [detail |-> [resources |-> "none"]],
     [source |-> "aws.access-analyzer"],
     [detail |-> [notAnObject |-> "text"]],
     [detail |-> Null]}

\* A value that has a get method: a dict, not None and not a string.
HasGet(v) == "notAnObject" \notin DOMAIN v /\ "none" \notin DOMAIN v

\* `not v` for a string or None, with the empty string taken for a value.
Falsy_NoneOnly(v) == v = None

\* `not v` for a string or None
Falsy(v) == v = None \/ v = ""

\* `not finding`: None or the empty dict
FalsyFinding(finding) == DOMAIN finding = {} \/ "none" \in DOMAIN finding

\* The four results of handler.
ClientError ==
    [statusCode |-> 400,
     body |-> JsonDumps([error |-> "Missing finding ID or analyzer ARN"])]

\* The result for a finding that is not there, given the one for a
\* malformed request.
NotFound_AsClientError == ClientError

NotFound ==
    [statusCode |-> 404, body |-> JsonDumps([error |-> "Finding not found"])]

\* The fault leaving the handler, as the runtime reports it.
ServerError_Propagated(e) == [errorType |-> e]

ServerError(e) == [statusCode |-> 500, body |-> JsonDumps([error |-> e])]

Success(finding_id, result) ==
    [statusCode |-> 200,
     body |-> JsonDumps([findingId |-> finding_id, result |-> result])]

HInit ==
    /\ hpc = "idle"
    /\ hEvent = Null
    /\ hLookups = <<>>
    /\ hProcessed = <<>>
    /\ hFault = None
    /\ hResult = Null

\* handler(event, context), lines 31-43: the fields are read; a detail that
\* has no get raises AttributeError into the except clause of lines 67-72.
HInvoke(event) ==
    /\ hpc = "idle"
    /\ hEvent' = event
    /\ hLookups' = <<>>
    /\ hProcessed' = <<>>
    /\ LET detail == Get(event, "detail", EmptyDict)
       IN  IF ~HasGet(detail)
           THEN /\ hFault' = "detail"
                /\ hResult' = ServerError("AttributeError")
                /\ hpc' = "idle"
           ELSE LET finding_id == Get(detail, "id", None)
                    analyzer_arn == Get(detail, "analyzerArn", None)
                IN  IF Falsy(finding_id) \/ Falsy(analyzer_arn)
                    THEN /\ hFault' = None
                         /\ hResult' = ClientError
                         /\ hpc' = "idle"
                    ELSE /\ hFault' = None
                         /\ hResult' = Null
                         /\ hpc' = "get_finding"
    /\ UNCHANGED <<jitVars, actVars, pVars, dVars, scanVars>>

\* get_finding returns response.get('finding', {}) (lines 86-90), a finding
\* with the id that was asked for; the handler answers 404 if that is empty
\* and else processes it (lines 46-65).  A finding that is not an object
\* makes process_finding raise into the except clause of lines 67-72.
GetFindingReturns(response) ==
    /\ hpc = "get_finding"
    /\ Get(Get(response, "finding", EmptyDict), "id", hEvent.detail.id)
          = hEvent.detail.id
    /\ hLookups' = Append(hLookups, [analyzerArn |-> hEvent.detail.analyzerArn,
                                     id |-> hEvent.detail.id,
                                     outcome |-> "ok"])
    /\ LET finding == Get(response, "finding", EmptyDict)
       IN  IF FalsyFinding(finding)
           THEN /\ hResult' = NotFound
                /\ hFault' = None
                /\ UNCHANGED hProcessed
           ELSE IF ~HasGet(finding)
           THEN /\ hResult' = ServerError("AttributeError")
                /\ hFault' = "process_finding"
                /\ hProcessed' = Append(hProcessed, finding)
           ELSE /\ hResult' = Success(hEvent.detail.id, process_finding(finding))
                /\ hFault' = None
                /\ hProcessed' = Append(hProcessed, finding)
    /\ hpc' = "idle"
    /\ UNCHANGED <<jitVars, actVars, pVars, dVars, scanVars, hEvent>>

\* What makes accessanalyzer.get_finding raise: the analyzer has no such
\* finding, it throttles the call, it denies it, or it cannot be reached.
LookupFaults ==
    {"ResourceNotFoundException", "ThrottlingException",
     "AccessDeniedException", "EndpointConnectionError"}

\* A handler that answers 404 for a missing finding only.
ResultOfLookupFault_ByCause(cause) ==
    IF cause = "ResourceNotFoundException" THEN NotFound
    ELSE ServerError(cause)

\* get_finding catches whatever the call raises and returns None (lines
\* 91-93); the handler answers 404 for None (lines 47-52).
ResultOfLookupFault(cause) == NotFound

\* accessanalyzer.get_finding raises: get_finding logs it and returns None
\* (lines 91-93), and the handler answers 404.
GetFindingRaises(cause) ==
    /\ hpc = "get_finding"
    /\ hLookups' = Append(hLookups, [analyzerArn |-> hEvent.detail.analyzerArn,
                                     id |-> hEvent.detail.id,
                                     outcome |-> cause])
    /\ hResult' = ResultOfLookupFault(cause)
    /\ hFault' = "get_finding"
    /\ hpc' = "idle"
    /\ UNCHANGED <<jitVars, actVars, pVars, dVars, scanVars, hEvent, hProcessed>>

HandlerNext ==
    \/ \E event \in HandlerEvents : HInvoke(event)
    \/ \E response \in GetFindingResponses : GetFindingReturns(response)
    \/ \E cause \in LookupFaults : GetFindingRaises(cause)

(***************************************************************************)
(* Part 4.  The AccessAnalyzerFindings rule and its target                 *)
(***************************************************************************)

\* Deliveries the rule makes in a behaviour of the model.
MaxDeliveries == 2

\* targets=[targets.LambdaFunction(self.remediation_function)]
RuleTargets == {"RemediationFunction"}

\* handler(event, context) of lambda/remediation/index.py: the event is
\* logged and a fixed answer returned.
RemediationFunctionHandler(event) ==
    [status |-> "ok", message |-> "Event processed"]

\* What that handler calls of the classifier, the advisor and the actuator.
RemediationFunctionCalls(event) == {}

DInit ==
    /\ dInFlight = Null
    /\ dLog = <<>>

\* The rule matches a finding event and invokes its target with it.
DispatchFinding(event) ==
    /\ dInFlight = Null
    /\ Len(dLog) < MaxDeliveries
    /\ dInFlight' = event
    /\ UNCHANGED <<jitVars, actVars, pVars, hVars, scanVars, dLog>>

\* The target's handler returns.
TargetReturns ==
    /\ dInFlight # Null
    /\ dLog' = Append(dLog,
          [event |-> dInFlight,
           targets |-> RuleTargets,
           result |-> RemediationFunctionHandler(dInFlight),
           ran |-> RemediationFunctionCalls(dInFlight)])
    /\ dInFlight' = Null
    /\ UNCHANGED <<jitVars, actVars, pVars, hVars, scanVars>>

DispatcherNext ==
    \/ \E event \in Events : DispatchFinding(event)
    \/ TargetReturns

(***************************************************************************)
(* Part 5.  Credential hygiene scanner (CredentialRotationFunction)        *)
(*                                                                         *)
(* IAM is a store: a call that is not made to fail does what it is asked.  *)
(* Times are in hours.  The runs of a behaviour start within the same hour *)
(* and so compute the same `now`.                                          *)
(***************************************************************************)

\* age_days > 90
ThresholdDays == 90

\* timedelta.days: whole days of 24 hours
HoursPerDay == 24

\* now = datetime.datetime.now(datetime.timezone.utc)
Now == 3000

\* Users on one page of list_users.
PageSize == 2

Runs == {1, 2}

\* The users of the account, in the order list_users gives them.
UserNames == <<"alice", "bob", "carol">>

UserSet == {UserNames[i] : i \in 1..Len(UserNames)}

KeyIdsOf ==
    [u \in UserSet |->
        IF u = "alice" THEN <<"AKIA-A1", "AKIA-A2">>
        ELSE IF u = "bob" THEN <<"AKIA-B1">>
        ELSE <<"AKIA-C1">>]

\* Keys created 10 days, 90 days, 90 days and 23 hours, and 91 days ago.
CreateDates == {Now - 240, Now - 2160, Now - 2183, Now - 2184}

\* The paginator with the pages after the first left out.
Paginate_FirstPage(users, size) == <<SubSeq(users, 1, Min(size, Len(users)))>>

\* paginator.paginate(): the users in pages of at most `size`
RECURSIVE Paginate(_, _)
Paginate(users, size) ==
    IF Len(users) <= size THEN <<users>>
    ELSE <<SubSeq(users, 1, size)>>
         \o Paginate(SubSeq(users, size + 1, Len(users)), size)

Pages == Paginate(UserNames, PageSize)

\* age_days = (now - key['CreateDate']).days
age_days(key) == (Now - key.CreateDate) \div HoursPerDay

\* The test of line 176 with the threshold day included.
ShouldDisable_AtThreshold(key) ==
    age_days(key) >= ThresholdDays /\ key.Status = "Active"

\* age_days > 90 and key['Status'] == 'Active'
ShouldDisable(key) == age_days(key) > ThresholdDays /\ key.Status = "Active"

\* An IAM that refuses to set the status a key already has.
UpdateAccessKeyAccepts_ChangeOnly(current, new) == current # new

\* iam.update_access_key sets the status whatever the key's status is.
UpdateAccessKeyAccepts(current, new) == TRUE

AllKeyIds == UNION {{KeyIdsOf[u][i] : i \in 1..Len(KeyIdsOf[u])} : u \in UserSet}

\* What IAM keeps, for the creation date and the status of each key.
KeyStore(c, st) ==
    [u \in UserSet |->
        [i \in 1..Len(KeyIdsOf[u]) |->
            [AccessKeyId |-> KeyIdsOf[u][i],
             CreateDate |-> c[KeyIdsOf[u][i]],
             Status |-> st[KeyIdsOf[u][i]]]]]

\* No run has started.
ScanRunsIdle ==
    /\ spc = [r \in Runs |-> "idle"]
    /\ sPage = [r \in Runs |-> 0]
    /\ sUser = [r \in Runs |-> 0]
    /\ sKeys = [r \in Runs |-> <<>>]
    /\ sKey = [r \in Runs |-> 0]
    /\ sDisabled = [r \in Runs |-> <<>>]
    /\ sUpdates = [r \in Runs |-> <<>>]
    /\ sVisited = [r \in Runs |-> {}]
    /\ sFailedAt = [r \in Runs |-> None]
    /\ sBefore = [r \in Runs |-> Null]
    /\ sResult = [r \in Runs |-> Null]

ScanInit ==
    /\ \E c \in [AllKeyIds -> CreateDates] :
       \E st \in [AllKeyIds -> {"Active", "Inactive"}] :
          accessKeys = KeyStore(c, st)
    /\ ScanRunsIdle

\* The scanner before any run, with every key young and Active.
ScanIdle ==
    /\ accessKeys = KeyStore([k \in AllKeyIds |-> Now - 240],
                             [k \in AllKeyIds |-> "Active"])
    /\ ScanRunsIdle

\* The scanner before a run that overlaps another, with every key either 10
\* or 91 days old.
ScanYoungOrStale ==
    /\ \E c \in [AllKeyIds -> {Now - 240, Now - 2184}] :
       \E st \in [AllKeyIds -> {"Active", "Inactive"}] :
          accessKeys = KeyStore(c, st)
    /\ ScanRunsIdle

\* The user the run is at.
CurrentUser(r) == Pages[sPage[r]][sUser[r]]

\* The loop over page['Users'] goes on to the next user; after the last user
\* of a page the paginator asks for the next page, and after the last page
\* the loops are left.
NextUser(r) ==
    IF sUser[r] < Len(Pages[sPage[r]])
    THEN /\ sUser' = [sUser EXCEPT ![r] = @ + 1]
         /\ spc' = [spc EXCEPT ![r] = "list_access_keys"]
         /\ UNCHANGED sPage
    ELSE IF sPage[r] < Len(Pages)
    THEN /\ sPage' = [sPage EXCEPT ![r] = @ + 1]
         /\ sUser' = [sUser EXCEPT ![r] = 0]
         /\ spc' = [spc EXCEPT ![r] = "list_users"]
    ELSE /\ spc' = [spc EXCEPT ![r] = "return"]
         /\ UNCHANGED <<sPage, sUser>>

\* The loop over access_keys goes on to the next key, or is left.
NextKey(r) ==
    IF sKey[r] < Len(sKeys[r])
    THEN /\ sKey' = [sKey EXCEPT ![r] = @ + 1]
         /\ UNCHANGED <<spc, sPage, sUser, sKeys>>
    ELSE /\ sKey' = [sKey EXCEPT ![r] = 0]
         /\ sKeys' = [sKeys EXCEPT ![r] = <<>>]
         /\ NextUser(r)

\* An exception leaves handler: the invocation ends in error, with no result.
Escapes(r, at) ==
    /\ sResult' = [sResult EXCEPT ![r] = [errorType |-> "ClientError"]]
    /\ sFailedAt' = [sFailedAt EXCEPT ![r] = at]
    /\ spc' = [spc EXCEPT ![r] = "idle"]

\* handler(event, context) starts (lines 168-170) and asks for the first page.
ScanStart(r) ==
    /\ spc[r] = "idle"
    /\ sResult[r] = Null
    /\ sBefore[r] = Null
    /\ sBefore' = [sBefore EXCEPT ![r] = accessKeys]
    /\ sPage' = [sPage EXCEPT ![r] = 1]
    /\ spc' = [spc EXCEPT ![r] = "list_users"]
    /\ UNCHANGED <<jitVars, actVars, pVars, hVars, dVars, accessKeys, sUser, sKeys,
                   sKey, sDisabled, sUpdates, sVisited, sFailedAt, sResult>>

\* The paginator's list_users call returns the page (line 171).
ListUsersOk(r) ==
    /\ spc[r] = "list_users"
    /\ IF Pages[sPage[r]] = <<>>
       THEN /\ spc' = [spc EXCEPT ![r] = "return"]
            /\ UNCHANGED sUser
       ELSE /\ sUser' = [sUser EXCEPT ![r] = 1]
            /\ spc' = [spc EXCEPT ![r] = "list_access_keys"]
    /\ UNCHANGED <<jitVars, actVars, pVars, hVars, dVars, accessKeys, sPage, sKeys,
                   sKey, sDisabled, sUpdates, sVisited, sFailedAt, sBefore,
                   sResult>>

\* The paginator's list_users call raises.
ListUsersFails(r) ==
    /\ spc[r] = "list_users"
    /\ Escapes(r, "list_users")
    /\ UNCHANGED <<jitVars, actVars, pVars, hVars, dVars, accessKeys, sPage, sUser,
                   sKeys, sKey, sDisabled, sUpdates, sVisited, sBefore>>

\* iam.list_access_keys returns the user's keys as they are now (line 173).
ListAccessKeysOk(r) ==
    /\ spc[r] = "list_access_keys"
    /\ sVisited' = [sVisited EXCEPT ![r] = @ \cup {CurrentUser(r)}]
    /\ LET access_keys == accessKeys[CurrentUser(r)]
       IN  IF access_keys = <<>>
           THEN /\ UNCHANGED <<sKeys, sKey>>
                /\ NextUser(r)
           ELSE /\ sKeys' = [sKeys EXCEPT ![r] = access_keys]
                /\ sKey' = [sKey EXCEPT ![r] = 1]
                /\ spc' = [spc EXCEPT ![r] = "key"]
                /\ UNCHANGED <<sPage, sUser>>
    /\ UNCHANGED <<jitVars, actVars, pVars, hVars, dVars, accessKeys, sDisabled,
                   sUpdates, sFailedAt, sBefore, sResult>>

\* iam.list_access_keys raises.
ListAccessKeysFails(r) ==
    /\ spc[r] = "list_access_keys"
    /\ sVisited' = [sVisited EXCEPT ![r] = @ \cup {CurrentUser(r)}]
    /\ Escapes(r, CurrentUser(r))
    /\ UNCHANGED <<jitVars, actVars, pVars, hVars, dVars, accessKeys, sPage, sUser,
                   sKeys, sKey, sDisabled, sUpdates, sBefore>>

\* A key that passes the test of line 176: iam.update_access_key is called
\* with Status='Inactive' and the key is appended to disabled (lines 177-178).
\* If IAM refuses the call, the exception leaves the handler.
UpdateAccessKey(r) ==
    /\ spc[r] = "key"
    /\ ShouldDisable(sKeys[r][sKey[r]])
    /\ LET user == CurrentUser(r)
           key == sKeys[r][sKey[r]]
           current == accessKeys[user][sKey[r]]
           call == [UserName |-> user, AccessKeyId |-> key.AccessKeyId,
                    Status |-> "Inactive", was |-> current.Status]
       IN  /\ sUpdates' = [sUpdates EXCEPT ![r] = Append(@, call)]
           /\ IF UpdateAccessKeyAccepts(current.Status, "Inactive")
              THEN /\ accessKeys' = [accessKeys EXCEPT
                                       ![user][sKey[r]].Status = "Inactive"]
                   /\ sDisabled' = [sDisabled EXCEPT ![r] =
                         Append(@, [user |-> user, key |-> key.AccessKeyId,
                                    ageDays |-> age_days(key)])]
                   /\ NextKey(r)
                   /\ UNCHANGED <<sFailedAt, sResult>>
              ELSE /\ Escapes(r, user)
                   /\ UNCHANGED <<accessKeys, sPage, sUser, sKeys, sKey,
                                  sDisabled>>
    /\ UNCHANGED <<jitVars, actVars, pVars, hVars, dVars, sVisited, sBefore>>

\* iam.update_access_key raises.
UpdateAccessKeyFails(r) ==
    /\ spc[r] = "key"
    /\ ShouldDisable(sKeys[r][sKey[r]])
    /\ Escapes(r, CurrentUser(r))
    /\ UNCHANGED <<jitVars, actVars, pVars, hVars, dVars, accessKeys, sPage, sUser,
                   sKeys, sKey, sDisabled, sUpdates, sVisited, sBefore>>

\* A key that does not pass the test of line 176 is passed over.
SkipKey(r) ==
    /\ spc[r] = "key"
    /\ ~ShouldDisable(sKeys[r][sKey[r]])
    /\ NextKey(r)
    /\ UNCHANGED <<jitVars, actVars, pVars, hVars, dVars, accessKeys, sDisabled,
                   sUpdates, sVisited, sFailedAt, sBefore, sResult>>

\* print(json.dumps({'disabled': disabled}));
\* return {'disabledCount': len(disabled)} (lines 179-180).
ScanReturn(r) ==
    /\ spc[r] = "return"
    /\ sResult' = [sResult EXCEPT ![r] = [disabledCount |-> Len(sDisabled[r])]]
    /\ spc' = [spc EXCEPT ![r] = "idle"]
    /\ UNCHANGED <<jitVars, actVars, pVars, hVars, dVars, accessKeys, sPage, sUser,
                   sKeys, sKey, sDisabled, sUpdates, sVisited, sFailedAt,
                   sBefore>>

\* One run of the scanner.
ScanNext ==
    \/ ScanStart(1)
    \/ ListUsersOk(1)
    \/ ListUsersFails(1)
    \/ ListAccessKeysOk(1)
    \/ ListAccessKeysFails(1)
    \/ UpdateAccessKey(1)
    \/ UpdateAccessKeyFails(1)
    \/ SkipKey(1)
    \/ ScanReturn(1)

\* The schedule triggers a run.  The runs are numbered in the order in which
\* they start; the second may start at any point of the first or after it.
Trigger(r) ==
    /\ r # 1 => spc[1] # "idle" \/ sResult[1] # Null
    /\ ScanStart(r)

\* Two runs at the same time, no lock between them: each call to IAM is one
\* step, and the steps of the two runs interleave freely.
OverlapNext ==
    \E r \in Runs :
        \/ Trigger(r)
        \/ ListUsersOk(r)
        \/ ListAccessKeysOk(r)
        \/ UpdateAccessKey(r)
        \/ SkipKey(r)
        \/ ScanReturn(r)

(***************************************************************************)
(* Part 6.  Calls of the classifier and the advisor                        *)
(*                                                                         *)
(* process_finding is applied to one finding after another; the calls and  *)
(* what they returned are kept in order.                                   *)
(***************************************************************************)

\* Calls of process_finding in a behaviour of the model.
MaxCalls == 2

\* The findings process_finding is given: every resource type with every
\* issue code and with the empty code, each under two ids with their own
\* status and resource,
\* and a finding with no field but its id.
ProcessInputs ==
    {[id |-> e[1], status |-> e[2], resource |-> e[3], resourceType |-> t,
      issueCode |-> c] :
        e \in {<<"finding-1", "ACTIVE", BucketArn("my-bucket")>>,
               <<"finding-2", "ARCHIVED", RoleArn>>},
        t \in ResourceTypes,
        c \in IssueCodes \cup {""}}
    \cup {[id |-> "finding-1"]}

PInit == pCalls = <<>>

\* process_finding(finding) is called and returns.
ProcessFinding(finding) ==
    /\ Len(pCalls) < MaxCalls
    /\ pCalls' = Append(pCalls, [finding |-> finding,
                                 result |-> process_finding(finding)])
    /\ UNCHANGED <<jitVars, actVars, hVars, dVars, scanVars>>

ProcessNext == \E finding \in ProcessInputs : ProcessFinding(finding)

(***************************************************************************)
(* Specifications                                                          *)
(***************************************************************************)

\* The parts a specification leaves alone, before anything happened.
Rest345 == HInit /\ DInit /\ ScanIdle /\ PInit

InitJit == JitInit /\ ActIdle /\ Rest345

SpecJit == InitJit /\ [][JitNext]_vars

InitActuator == ActInit /\ JitInit /\ Rest345

SpecActuator == InitActuator /\ [][ActNext]_vars

InitConcurrent == InitActuator

SpecConcurrent == InitConcurrent /\ [][ConcurrentNext]_vars

InitHandler == HInit /\ JitInit /\ ActIdle /\ DInit /\ ScanIdle /\ PInit

SpecHandler == InitHandler /\ [][HandlerNext]_vars

InitDispatcher == DInit /\ JitInit /\ ActIdle /\ HInit /\ ScanIdle /\ PInit

SpecDispatcher == InitDispatcher /\ [][DispatcherNext]_vars

InitScanner == ScanInit /\ JitInit /\ ActIdle /\ HInit /\ DInit /\ PInit

SpecScanner == InitScanner /\ [][ScanNext]_vars

InitOverlap == ScanYoungOrStale /\ JitInit /\ ActIdle /\ HInit /\ DInit /\ PInit

SpecOverlap == InitOverlap /\ [][OverlapNext]_vars

InitProcess == PInit /\ JitInit /\ ActIdle /\ HInit /\ DInit /\ ScanIdle

SpecProcess == InitProcess /\ [][ProcessNext]_vars

\* One bucket with or without a policy of one statement, the other as in
\* ActIdle.
InitOtherWriter ==
    /\ JitInit
    /\ Rest345
    /\ pab = [b \in Buckets |-> NoneBlocked]
    /\ \E first \in {NoPolicy} \cup
                     {text \in OtherWriterTexts : Len(text.doc.Statement) = 1} :
          policy =
             [b \in Buckets |->
                 IF b = "my-bucket" THEN first
                 ELSE [layout |-> "authored",
                       doc |-> [Version |-> "2012-10-17",
                                Statement |-> <<[Effect |-> "Allow",
                                                 Principal |-> StarPrincipal]>>]]]
    /\ ActRunsIdle

SpecOtherWriter == InitOtherWriter /\ [][OtherWriterNext]_vars


(***************************************************************************)
(* Claims about the JIT access workflow, checked under SpecJit             *)
(***************************************************************************)

Reached(l) == \E i \in 1..Len(lifecycle) : lifecycle[i] = l

LifecycleOrder == <<"Requested", "ManagerApproved", "Granted", "Revoked">>

\* C1: every execution in which the grant action was invoked goes on to
\* invoke the revoke action and reaches Revoked, also when the grant step
\* fails.  Stated on the executions that ended by their own steps (not
\* stopped from outside, not timed out).
C1_RevokeFollowsGrant ==
    (execStatus \in {"SUCCEEDED", "FAILED"} /\ grantInvocations > 0)
        => (revokeInvocations > 0 /\ Reached("Revoked"))

C3_ExactlyOneRevoke ==
    (execStatus \in Terminal /\ Reached("Granted")) => revokeInvocations = 1

\* C4 as stated: an execution that reached Granted and was neither stopped
\* from outside nor timed out ends Revoked.
C4_GrantedEndsRevoked ==
    (execStatus \in {"SUCCEEDED", "FAILED"} /\ Reached("Granted"))
        => Reached("Revoked")

\* C4 as amended: after Granted the workflow invokes the revoke action by
\* itself, exactly when the hold has elapsed, so that the time from the
\* grant invocation to the revoke invocation is the hold plus the latency of
\* the grant action; it reaches Revoked exactly when that invocation
\* succeeds; time never passes the end of the hold or the ceiling while the
\* execution runs, and the execution ends within the ceiling.
C4_HoldThenRevoke ==
    /\ revokeInvokedAt # -1 =>
          /\ Reached("Granted")
          /\ revokeInvokedAt = grantReturnedAt + HoldMinutes
          /\ revokeInvokedAt - grantInvokedAt
                <= HoldMinutes + (grantReturnedAt - grantInvokedAt)
    /\ (execStatus = "RUNNING" /\ jitState = "WaitDuration") =>
          /\ waitUntil = grantReturnedAt + HoldMinutes
          /\ clock <= waitUntil
    /\ Reached("Revoked") <=> revokeOutcome = "ok"
    /\ (execStatus \in {"SUCCEEDED", "FAILED"} /\ Reached("Granted"))
          => revokeInvocations = 1
    /\ execStatus = "RUNNING" => clock - startedAt <= CeilingMinutes
    /\ execStatus \in Terminal => endedAt - startedAt <= CeilingMinutes

\* C4 witness: an execution that was granted after some latency, held for
\* the hold duration and reached Revoked.
C4_Witness ==
    /\ execStatus = "SUCCEEDED"
    /\ Reached("Revoked")
    /\ grantReturnedAt > grantInvokedAt
    /\ revokeInvokedAt = grantReturnedAt + HoldMinutes

\* C5: the request passes through Requested, ManagerApproved, Granted,
\* Revoked in this order only, and ManagerApproved is entered, and the grant
\* action invoked, only for a request an external approver has approved.
C5_ApprovalBeforeGrant ==
    /\ lifecycle = SubSeq(LifecycleOrder, 1, Len(lifecycle))
    /\ Reached("ManagerApproved") => approved
    /\ grantInvocations > 0 => approved

\* C6: a failure of the revoke step is not swallowed: when the RevokeAccess
\* task fails the execution ends in a failed outcome and an operator is
\* notified of it, and an execution ends SUCCEEDED (Revoked) only after the
\* revoke action succeeded and with no temporary assignment left.
C6_RevokeFailureEscalated ==
    /\ revokeOutcome = "failed" =>
          /\ execStatus = "FAILED"
          /\ ~Reached("Revoked")
          /\ operatorAlerts # {}
    /\ execStatus = "SUCCEEDED" =>
          /\ revokeOutcome = "ok"
          /\ assignments = 0

\* C7: revoke on a request that is already Revoked or was never Granted
\* returns a non-error result and leaves the assignment as it was, and grant
\* invoked again on an already granted request leaves exactly one
\* assignment.
C7_GrantRevokeIdempotent ==
    lastDirect # Null =>
        /\ (lastDirect.fn = "revoke" /\ (lastDirect.revoked \/ ~lastDirect.granted))
              => (lastDirect.result = [revoked |-> TRUE]
                  /\ lastDirect.after = lastDirect.before)
        /\ (lastDirect.fn = "grant" /\ lastDirect.granted)
              => lastDirect.after = 1

(***************************************************************************)
(* Claims about the S3 remediation actuator, checked under SpecActuator    *)
(***************************************************************************)

FindingOf(event) == Get(Get(event, "detail", EmptyDict), "finding", EmptyDict)

\* A run of the handler that has returned {"status": "ok"}.
Completed(w) == apc[w] = "idle" /\ aResult[w] = [status |-> "ok"]

\* A statement with Effect Allow and Principal "*" or {"AWS": "*"}.
WildcardAllowStatement(stmt) ==
    /\ "Effect" \in DOMAIN stmt /\ stmt.Effect = "Allow"
    /\ "Principal" \in DOMAIN stmt
    /\ stmt.Principal \in {StarPrincipal, AwsStarPrincipal}

NoWildcardAllowLeft(b) ==
    policy[b] # NoPolicy =>
        \A i \in 1..Len(JsonLoads(policy[b]).Statement) :
            ~WildcardAllowStatement(JsonLoads(policy[b]).Statement[i])

\* The second of two applications of the actuator to the same S3 finding,
\* with no API call made to fail in either.
SecondApplication(w) ==
    /\ Completed(w)
    /\ aRepeat[w]
    /\ ~aFault[w]
    /\ aBucket[w] \in Buckets

IsFilteredCopy(W, F) ==
    \E f \in [1..Len(W) -> 1..Len(F)] :
        /\ \A j, k \in 1..Len(W) : j < k => f[j] < f[k]
        /\ \A k \in 1..Len(W) : W[k] = F[f[k]]
        /\ {f[k] : k \in 1..Len(W)} =
              {i \in 1..Len(F) : ~WildcardAllowStatement(F[i])}

PolicyWrites(w) ==
    {i \in 1..Len(aCalls[w]) : aCalls[w][i].op = "put_bucket_policy"}

\* C9: the Statement list of every policy the actuator writes is the fetched
\* Statement list without its wildcard-Allow statements, every other
\* statement kept unchanged and in its order; the rest of the document is as
\* fetched and the write goes to the bucket of the finding.
C9_WritesFilteredStatements ==
    \A w \in Deliveries : \A i \in PolicyWrites(w) :
        LET call == aCalls[w][i]
        IN  /\ IsFilteredCopy(JsonLoads(call.Policy).Statement, call.fetched)
            /\ JsonLoads(call.Policy).Version = "2012-10-17"
            /\ BucketArn(call.bucket) = FindingOf(aEvent[w]).resource

\* C9 witness: a policy write in which one statement was dropped and a Deny
\* statement with a wildcard principal was kept.
C9_Witness ==
    \E w \in Deliveries : \E i \in PolicyWrites(w) :
        LET call == aCalls[w][i]
        IN  /\ call.ok
            /\ Len(call.fetched) = 2
            /\ Len(JsonLoads(call.Policy).Statement) = 1
            /\ JsonLoads(call.Policy).Statement[1] =
                  [Effect |-> "Deny", Principal |-> StarPrincipal]
            /\ policy[call.bucket] = call.Policy

PublicExposureCodes ==
    {"S3_BUCKET_PUBLIC_READ_ACCESS", "S3_BUCKET_PUBLIC_WRITE_ACCESS"}

\* C10: the actuator issues mutating calls only for a finding about an S3
\* bucket whose issue is a public exposure; for every other finding it
\* issues none and leaves the buckets as they were, and it never deletes a
\* bucket.
C10_ActsOnPublicExposureOnly ==
    \A w \in Deliveries :
        LET finding == FindingOf(aEvent[w])
            qualifies ==
                /\ Get(finding, "resourceType", None) = "AWS::S3::Bucket"
                /\ Get(finding, "issueCode", None) \in PublicExposureCodes
        IN  /\ aCalls[w] # <<>> => qualifies
            /\ (aEvent[w] # Null /\ ~qualifies) => BucketState = aBefore[w]
            /\ \A i \in 1..Len(aCalls[w]) : aCalls[w][i].op # "delete_bucket"

(***************************************************************************)
(* Claims about two concurrent deliveries, checked under SpecConcurrent    *)
(***************************************************************************)

BothCompleted == \A w \in Deliveries : Completed(w)

\* The buckets before the first of the two deliveries.
Original == aBefore[1]

Qualifies(finding) ==
    /\ Get(finding, "resourceType", None) = "AWS::S3::Bucket"
    /\ Get(finding, "issueCode", None) \in PublicExposureCodes
    /\ assess_risk_level(Get(finding, "resourceType", None),
                         Get(finding, "issueCode", None)) = "HIGH"

\* C12: every finding event the rule delivered was classified and given
\* advice, and for every delivered finding that qualifies the actuator was
\* applied as well.
C12_DeliveredFindingsFlow ==
    \A i \in 1..Len(dLog) :
        LET d == dLog[i]
        IN  /\ "classifier" \in d.ran
            /\ "advisor" \in d.ran
            /\ Qualifies(FindingOf(d.event)) => "actuator" \in d.ran

(***************************************************************************)
(* Claims about the credential hygiene scanner, checked under SpecScanner  *)
(* (one run, API calls may fail) and SpecOverlap (two runs at once)        *)
(***************************************************************************)

\* A run that has ended, by returning or by an exception.
ScanEnded(r) == spc[r] = "idle" /\ sResult[r] # Null

\* A run that has returned its result.
ScanCompleted(r) == ScanEnded(r) /\ "disabledCount" \in DOMAIN sResult[r]

\* Whole days from createDate to now.
WholeDays(key) ==
    LET hours == Now - key.CreateDate
    IN  (hours - (hours % 24)) \div 24

StaleActive(key) == key.Status = "Active" /\ WholeDays(key) > 90

\* The positions of the disabled-list that are about the key.
EntriesOf(r, key) ==
    {j \in 1..Len(sDisabled[r]) : sDisabled[r][j].key = key.AccessKeyId}

KeysBefore(r) ==
    {<<u, i>> : u \in UserSet, i \in 1..2} \cap
    {p \in UserSet \X (1..2) : p[2] \in DOMAIN sBefore[r][p[1]]}

\* C13: after a run that completed, every key of every user, on whatever
\* page, that was Active and more than 90 whole days old when the run
\* started is Inactive and has exactly one entry in the disabled-list, with
\* its user, its key id and its age in whole days.
C13_StaleKeysDisabledAndRecorded ==
    \A r \in Runs :
        ScanCompleted(r) =>
            \A p \in KeysBefore(r) :
                LET key == sBefore[r][p[1]][p[2]]
                IN  StaleActive(key) =>
                        /\ accessKeys[p[1]][p[2]].Status = "Inactive"
                        /\ Cardinality(EntriesOf(r, key)) = 1
                        /\ \A j \in EntriesOf(r, key) :
                              sDisabled[r][j] =
                                 [user |-> p[1], key |-> key.AccessKeyId,
                                  ageDays |-> WholeDays(key)]

\* C13 witness: a completed run over two pages that disabled a stale key of
\* a user of the first page and one of the user of the second page.
C13_Witness ==
    /\ ScanCompleted(1)
    /\ sPage[1] = 2
    /\ StaleActive(sBefore[1]["alice"][2])
    /\ StaleActive(sBefore[1]["carol"][1])
    /\ sResult[1].disabledCount >= 2

\* C14: a scan leaves as it was every key that was Inactive and every Active
\* key of 90 whole days or less, and lists neither; it deletes no key, and
\* every status change it makes is from Active to Inactive.
C14_OnlyStaleActiveKeysChange ==
    \A r \in Runs :
        spc[r] # "idle" \/ sResult[r] # Null =>
            /\ \A u \in UserSet : DOMAIN accessKeys[u] = DOMAIN sBefore[r][u]
            /\ \A p \in KeysBefore(r) :
                  LET before == sBefore[r][p[1]][p[2]]
                      after == accessKeys[p[1]][p[2]]
                  IN  /\ after.AccessKeyId = before.AccessKeyId
                      /\ after.CreateDate = before.CreateDate
                      /\ after.Status # before.Status =>
                            before.Status = "Active" /\ after.Status = "Inactive"
                      /\ (before.Status = "Inactive" \/ WholeDays(before) <= 90) =>
                            after = before /\ EntriesOf(r, before) = {}
            /\ \A j \in 1..Len(sUpdates[r]) : sUpdates[r][j].Status = "Inactive"

\* C14 witness: a completed run that disabled a key and left Active a key of
\* exactly 90 days and Inactive a key of 91 days.
C14_Witness ==
    /\ ScanCompleted(1)
    /\ sDisabled[1] # <<>>
    /\ sBefore[1]["alice"][1] =
          [AccessKeyId |-> "AKIA-A1", CreateDate |-> Now - 2160,
           Status |-> "Active"]
    /\ accessKeys["alice"][1].Status = "Active"
    /\ sBefore[1]["bob"][1] =
          [AccessKeyId |-> "AKIA-B1", CreateDate |-> Now - 2184,
           Status |-> "Inactive"]

\* C15: a run in which listing or updating the keys of one user failed has
\* still asked for the keys of every user and has returned its result, the
\* count of the keys it disabled before and after the failure.
C15_FailureDoesNotAbortScan ==
    \A r \in Runs :
        (ScanEnded(r) /\ sFailedAt[r] \in UserSet) =>
            /\ sVisited[r] = UserSet
            /\ "disabledCount" \in DOMAIN sResult[r]
            /\ sResult[r].disabledCount = Len(sDisabled[r])

\* C16: no exception leaves the scanner's or the actuator's handler: every
\* invocation that has ended, whatever API call failed in it and however
\* malformed its event, ended with the handler's structured result.
C16_NoExceptionEscapes ==
    /\ \A w \in Deliveries :
          aResult[w] # Null => "status" \in DOMAIN aResult[w]
    /\ \A r \in Runs :
          sResult[r] # Null => "disabledCount" \in DOMAIN sResult[r]

\* C17: the result of a completed run carries the count and the
\* disabled-list; the count is the length of the list, and the list has one
\* entry for each update call the run issued, each for a key that the call
\* took from Active to Inactive.
C17_ReturnsCountAndList ==
    \A r \in Runs :
        ScanCompleted(r) =>
            /\ "disabled" \in DOMAIN sResult[r]
            /\ sResult[r].disabled = sDisabled[r]
            /\ sResult[r].disabledCount = Len(sResult[r].disabled)
            /\ Len(sDisabled[r]) = Len(sUpdates[r])
            /\ \A j \in 1..Len(sUpdates[r]) :
                  /\ sUpdates[r][j].was = "Active"
                  /\ sDisabled[r][j].key = sUpdates[r][j].AccessKeyId

HandlerEnded == hEvent # Null /\ hpc = "idle"

\* C19: whatever the event and whatever failed in the lookup or in the
\* processing, an invocation that has ended returned a result with a
\* statusCode of 200, 400, 404 or 500 and a body, and a fault raised inside
\* the handler gave the 500 result.
C19_HandlerAlwaysReturnsResult ==
    HandlerEnded =>
        /\ DOMAIN hResult = {"statusCode", "body"}
        /\ hResult.statusCode \in {200, 400, 404, 500}
        /\ hFault \in {"detail", "process_finding"} => hResult.statusCode = 500
        /\ hFault = "get_finding" => hResult.statusCode = 404

\* C19 witness: the finding that came back was not an object, processing it
\* raised, and the handler returned the 500 result.
C19_Witness ==
    /\ HandlerEnded
    /\ hFault = "process_finding"
    /\ hResult.statusCode = 500
    /\ Len(hLookups) = 1

\* A detail that lacks id or analyzerArn or holds an empty value for one.
LacksRequiredField(event) ==
    LET detail == Get(event, "detail", EmptyDict)
    IN  /\ HasGet(detail)
        /\ \/ "id" \notin DOMAIN detail
           \/ "analyzerArn" \notin DOMAIN detail
           \/ detail.id = ""
           \/ detail.analyzerArn = ""

\* C20: for an event whose detail lacks id or analyzerArn, or holds an empty
\* value for one, the handler returns the 400 result; it makes no lookup and
\* processes no finding.
C20_MissingFieldsClientError ==
    (hEvent # Null /\ LacksRequiredField(hEvent)) =>
        /\ hpc = "idle"
        /\ DOMAIN hResult = {"statusCode", "body"}
        /\ hResult.statusCode = 400
        /\ hLookups = <<>>
        /\ hProcessed = <<>>

\* C20 witness: an event with an empty id got the 400 result.
C20_Witness ==
    /\ hEvent = [detail |-> [id |-> "", analyzerArn |-> AnalyzerArn]]
    /\ hResult = ClientError

(***************************************************************************)
(* More claims about the finding handler, checked under SpecHandler        *)
(***************************************************************************)

\* The lookup the handler made last.
LastLookup == hLookups[Len(hLookups)]

\* A request that lacks a required field, or whose detail is not an object.
MalformedRequest(event) ==
    \/ LacksRequiredField(event)
    \/ ~HasGet(Get(event, "detail", EmptyDict))

\* C21: when id and analyzerArn are present and the analyzer has no such
\* finding, the handler returns the 404 result, not 400 and not 200; and a
\* malformed request never gets the 404 result.
C21_NotFoundDistinctFromMalformed ==
    HandlerEnded =>
        /\ (hLookups # <<>>
            /\ LastLookup.outcome = "ResourceNotFoundException") =>
              /\ "statusCode" \in DOMAIN hResult
              /\ hResult.statusCode = 404
              /\ hResult.body = JsonDumps([error |-> "Finding not found"])
        /\ MalformedRequest(hEvent) =>
              /\ "statusCode" \in DOMAIN hResult
              /\ hResult.statusCode \in {400, 500}
              /\ hLookups = <<>>

\* C21 witness: a complete request for a finding the analyzer does not have
\* got the 404 result.
C21_Witness ==
    /\ HandlerEnded
    /\ hEvent = [detail |-> [id |-> "finding-2", analyzerArn |-> AnalyzerArn]]
    /\ hLookups # <<>>
    /\ LastLookup.outcome = "ResourceNotFoundException"
    /\ hResult.statusCode = 404

\* C29: every failure of the lookup, whatever its cause, and a lookup that
\* answers with an empty finding give the 404 result 'Finding not found';
\* the 500 result is returned only for a fault raised outside the lookup.
C29_LookupFailuresAreNotFound ==
    (HandlerEnded /\ "statusCode" \in DOMAIN hResult) =>
        /\ (hLookups # <<>> /\ LastLookup.outcome \in LookupFaults) =>
              /\ hResult.statusCode = 404
              /\ hResult.body = JsonDumps([error |-> "Finding not found"])
        /\ (hLookups # <<>> /\ LastLookup.outcome = "ok"
            /\ hProcessed = <<>>) =>
              /\ hResult.statusCode = 404
              /\ hResult.body = JsonDumps([error |-> "Finding not found"])
        /\ hResult.statusCode = 500 =>
              /\ hFault \in {"detail", "process_finding"}
              /\ hLookups # <<>> => LastLookup.outcome = "ok"

\* C29 witness: a throttled lookup got the 404 result.
C29_Witness ==
    /\ HandlerEnded
    /\ hLookups # <<>>
    /\ LastLookup.outcome = "ThrottlingException"
    /\ hResult.statusCode = 404

(***************************************************************************)
(* Claims about the classifier and the advisor, checked under SpecProcess  *)
(***************************************************************************)

FiveHighRiskCodes ==
    {"S3_BUCKET_PUBLIC_READ_ACCESS", "S3_BUCKET_PUBLIC_WRITE_ACCESS",
     "IAM_ROLE_ALLOWS_PUBLIC_ASSUMPTION", "KMS_KEY_WITH_SYMMETRIC_ENCRYPTION",
     "IAM_POLICY_ALLOWS_PUBLIC_ACCESS"}

ThreeMediumRiskCodes ==
    {"S3_BUCKET_LOGGING_DISABLED", "IAM_ROLE_OVERLY_PERMISSIVE",
     "KMS_KEY_ROTATION_DISABLED"}

TypeOf(call) == Get(call.finding, "resourceType", "")

CodeOf(call) == Get(call.finding, "issueCode", "")

Calls == {pCalls[i] : i \in 1..Len(pCalls)}

\* C22: the risk level of every processed finding is HIGH exactly for the
\* five high-risk codes, MEDIUM exactly for the three medium-risk codes and
\* LOW for every other code, the empty one included, whatever the resource
\* type; it is never the initial UNKNOWN.
C22_RiskLevelByIssueCode ==
    \A call \in Calls :
        LET risk == call.result.riskLevel
        IN  /\ risk \in {"HIGH", "MEDIUM", "LOW"}
            /\ risk = "HIGH" <=> CodeOf(call) \in FiveHighRiskCodes
            /\ risk = "MEDIUM" <=> CodeOf(call) \in ThreeMediumRiskCodes
            /\ risk = "LOW" <=>
                  CodeOf(call) \notin FiveHighRiskCodes \cup ThreeMediumRiskCodes

\* C22 witness: a high-risk code under a resource type it does not belong
\* to was rated HIGH, and a finding with no issue code was rated LOW.
C22_Witness ==
    /\ \E call \in Calls :
          /\ TypeOf(call) = "AWS::Lambda::Function"
          /\ CodeOf(call) = "KMS_KEY_WITH_SYMMETRIC_ENCRYPTION"
          /\ call.result.riskLevel = "HIGH"
    /\ \E call \in Calls :
          /\ call.finding = [id |-> "finding-1"]
          /\ call.result.riskLevel = "LOW"

KnownTypes ==
    {"AWS::IAM::Role", "AWS::IAM::User", "AWS::S3::Bucket", "AWS::KMS::Key"}

\* The issue codes a known type has a list of its own for.
RecognisedCodes(type) ==
    IF type = "AWS::IAM::Role"
    THEN {"IAM_ROLE_ALLOWS_PUBLIC_ASSUMPTION", "IAM_ROLE_OVERLY_PERMISSIVE"}
    ELSE IF type = "AWS::IAM::User"
    THEN {"IAM_USER_UNUSED_ACCESS_KEY", "IAM_USER_UNUSED_CREDENTIALS"}
    ELSE IF type = "AWS::S3::Bucket"
    THEN {"S3_BUCKET_PUBLIC_READ_ACCESS", "S3_BUCKET_PUBLIC_WRITE_ACCESS",
          "S3_BUCKET_LOGGING_DISABLED"}
    ELSE IF type = "AWS::KMS::Key"
    THEN {"KMS_KEY_WITH_SYMMETRIC_ENCRYPTION", "KMS_KEY_ROTATION_DISABLED"}
    ELSE {}

\* The one generic step of a known type.
TypeGenericStep(type) ==
    IF type = "AWS::IAM::Role"
    THEN "Review the role's trust policy and attached permissions"
    ELSE IF type = "AWS::IAM::User"
    THEN "Review user permissions and remove unnecessary access"
    ELSE IF type = "AWS::S3::Bucket"
    THEN "Review bucket policies and access controls"
    ELSE "Review KMS key policies and usage"

GenericFourSteps ==
    <<"Review the resource's access policies",
      "Apply the principle of least privilege",
      "Consider using AWS Organizations SCPs for additional controls",
      "Implement monitoring and alerting for this resource type">>

\* C23: the advice is chosen by resource type first and issue code second:
\* under a known type a recognised code gives a list of three or four steps
\* that is the same in every call, an unrecognised code gives the one
\* generic step of the type, and every other type gives the generic four
\* steps whatever the code; the advice is never empty.
C23_AdviceByTypeThenCode ==
    \A call \in Calls :
        LET advice == call.result.remediation
            type == TypeOf(call)
        IN  /\ advice # <<>>
            /\ type \notin KnownTypes => advice = GenericFourSteps
            /\ (type \in KnownTypes
                /\ CodeOf(call) \notin RecognisedCodes(type)) =>
                  advice = <<TypeGenericStep(type)>>
            /\ (type \in KnownTypes /\ CodeOf(call) \in RecognisedCodes(type)) =>
                  /\ Len(advice) \in {3, 4}
                  /\ advice # GenericFourSteps
                  /\ \A other \in Calls :
                        (TypeOf(other) = type /\ CodeOf(other) = CodeOf(call))
                            => other.result.remediation = advice

\* C23 witness: a code of another type's list under S3 Bucket got the one
\* generic S3 step, and an S3 code under an unknown type the four steps.
C23_Witness ==
    /\ \E call \in Calls :
          /\ TypeOf(call) = "AWS::S3::Bucket"
          /\ CodeOf(call) = "KMS_KEY_ROTATION_DISABLED"
          /\ Len(call.result.remediation) = 1
    /\ \E call \in Calls :
          /\ TypeOf(call) = "AWS::Lambda::Function"
          /\ CodeOf(call) = "S3_BUCKET_PUBLIC_READ_ACCESS"
          /\ Len(call.result.remediation) = 4

\* C24: every finding whose (resourceType, issueCode) pair has no entry of
\* its own in the tables is rated LOW and gets the generic four steps.
C24_UnknownPairLowGeneric ==
    \A call \in Calls :
        ~(TypeOf(call) \in KnownTypes
          /\ CodeOf(call) \in RecognisedCodes(TypeOf(call))) =>
            /\ call.result.riskLevel = "LOW"
            /\ call.result.remediation = GenericFourSteps

\* C24, as the code has it: a finding whose resource type is none of the
\* four known types and whose issue code is in neither risk list is rated
\* LOW and gets the generic four steps.
C24_UnknownTypeAndCode ==
    \A call \in Calls :
        (TypeOf(call) \notin KnownTypes
         /\ CodeOf(call) \notin FiveHighRiskCodes \cup ThreeMediumRiskCodes) =>
            /\ call.result.riskLevel = "LOW"
            /\ call.result.remediation = GenericFourSteps

\* C24 witness: an unknown type with an unlisted code.
C24_Witness ==
    \E call \in Calls :
        /\ TypeOf(call) = "AWS::Lambda::Function"
        /\ CodeOf(call) = "UNLISTED_ISSUE"
        /\ call.result.riskLevel = "LOW"
        /\ Len(call.result.remediation) = 4

\* C25: two calls for the same (resourceType, issueCode) return the same
\* risk level and the same advice, whatever was processed before them and
\* whatever the other fields of the two findings are.
C25_SameInputSameOutput ==
    \A i, j \in 1..Len(pCalls) :
        (TypeOf(pCalls[i]) = TypeOf(pCalls[j])
         /\ CodeOf(pCalls[i]) = CodeOf(pCalls[j])) =>
            /\ pCalls[i].result.riskLevel = pCalls[j].result.riskLevel
            /\ pCalls[i].result.remediation = pCalls[j].result.remediation

\* C25 witness: two calls for one pair that differ in id, resource and
\* status.
C25_Witness ==
    /\ Len(pCalls) = 2
    /\ TypeOf(pCalls[1]) = "AWS::S3::Bucket"
    /\ CodeOf(pCalls[1]) = "S3_BUCKET_PUBLIC_READ_ACCESS"
    /\ TypeOf(pCalls[2]) = TypeOf(pCalls[1])
    /\ CodeOf(pCalls[2]) = CodeOf(pCalls[1])
    /\ pCalls[1].finding.id # pCalls[2].finding.id
    /\ pCalls[1].finding.status # pCalls[2].finding.status
    /\ pCalls[1].finding.resource # pCalls[2].finding.resource
    /\ pCalls[1].result.riskLevel = "HIGH"


(***************************************************************************)
(* Claims about the two steps of the actuator, checked under SpecActuator  *)
(***************************************************************************)

\* The policy step of the run found the bucket without a policy.
NoPolicyFound(w) == aFetch[w] = "NoSuchBucketPolicy"

\* The run's put_public_access_block call succeeded.
PublicAccessBlockApplied(w) ==
    \E i \in 1..Len(aCalls[w]) :
        aCalls[w][i].op = "put_public_access_block" /\ aCalls[w][i].ok

PastBothSteps(w) == apc[w] \in {"log", "idle"}

NothingToRemove(statements) ==
    \A k \in 1..Len(statements) : ~WildcardAllowStatement(statements[k])

\* C28: when the fetched policy has no wildcard-Allow statement, a policy
\* write the run issues leaves the content of the stored policy unchanged:
\* the document written has the fetched statements, it is the document the
\* bucket had when the run began, and after a successful write the bucket's
\* document is still that one.
C28_WriteWithoutChangeIsNoOp ==
    \A w \in Deliveries : \A i \in PolicyWrites(w) :
        LET call == aCalls[w][i]
        IN  NothingToRemove(call.fetched) =>
                /\ JsonLoads(call.Policy).Statement = call.fetched
                /\ JsonLoads(call.Policy) =
                      JsonLoads(aBefore[w].policy[call.bucket])
                /\ call.ok =>
                      JsonLoads(policy[call.bucket]) =
                         JsonLoads(aBefore[w].policy[call.bucket])

\* C28 witness: a run has returned that wrote back a policy of two
\* statements, none a wildcard-Allow and one a Deny with a wildcard
\* principal; the text stored is the one json.dumps writes, of the document
\* the author's text held.
C28_Witness ==
    \E w \in Deliveries : \E i \in PolicyWrites(w) :
        LET call == aCalls[w][i]
        IN  /\ Completed(w)
            /\ call.ok
            /\ Len(call.fetched) = 2
            /\ NothingToRemove(call.fetched)
            /\ \E k \in 1..Len(call.fetched) :
                  call.fetched[k] = [Effect |-> "Deny",
                                     Principal |-> StarPrincipal]
            /\ aBefore[w].policy[call.bucket].layout = "authored"
            /\ policy[call.bucket].layout = "json.dumps"

(***************************************************************************)
(* Claim about the actuator and another writer of the bucket's policy,     *)
(* checked under SpecOtherWriter                                           *)
(***************************************************************************)

\* The statement is in the policy the bucket has now.
InBucketPolicy(b, stmt) ==
    /\ policy[b] # NoPolicy
    /\ \E j \in 1..Len(JsonLoads(policy[b]).Statement) :
          JsonLoads(policy[b]).Statement[j] = stmt

\* C30: once the actuator has finished with a bucket, every statement that
\* another writer put into that bucket's policy and that is not a
\* wildcard-Allow statement is in the bucket's policy, wherever the other
\* writer's call fell with respect to the run.
C30_OtherWriterLosesNoUpdate ==
    \A i \in 1..Len(oWrites) :
        LET put == oWrites[i]
            written == JsonLoads(put.Policy).Statement
        IN  (Completed(1) /\ aBucket[1] = put.bucket) =>
                \A k \in 1..Len(written) :
                    ~WildcardAllowStatement(written[k]) =>
                        InBucketPolicy(put.bucket, written[k])

====
